---- MODULE Spec2Model ----
(***************************************************************************)
(* Model of the audio production subsystem of OBD-SuperStarAgent           *)
(* (src/backend/agents/audio_producer.py): the engine resolver, the        *)
(* ElevenLabs quota check, the bounded-concurrency batch executor          *)
(* _run_tts_jobs and the two phase calls run_hook_previews and             *)
(* run_final_audio with their whole-batch fallback loop.                   *)
(***************************************************************************)
EXTENDS Integers, Sequences, FiniteSets, TLC

VARIABLES
    cfg,        \* module globals read from config.py: MURF_API_KEY, ELEVENLABS_API_KEY
    net,        \* behaviour of the external services during one call
    req,        \* arguments of the call under execution
    \* ---- phase call (run_hook_previews / run_final_audio) ----
    pc,         \* position of the phase coroutine
    engine_ctx, \* local engine_ctx (with tts_engine and voice_pool)
    jobs,       \* job list of the last executed batch
    results,    \* results of the last executed batch
    successful, \* [r for r in results if "error" not in r]
    failed,     \* [r for r in results if "error" in r]
    fb,         \* index of the next entry of fallback_order to visit
    batches,    \* log of the batches executed so far in this call
    ret,        \* value returned by the phase call
    \* ---- one batch execution (_run_tts_jobs) ----
    bpc,        \* position of the gather: "idle", "running", "returned"
    bjobs,      \* jobs argument
    bctx,       \* engine_ctx argument
    jpc,        \* per job task: "waiting", "queued", "woken", "inflight", "done"
    sem,        \* value of asyncio.Semaphore(5)
    bans,       \* per job: the answer its provider request got
    bres,       \* per job: the artifact its task returned
    bret,       \* list returned by _run_tts_jobs
    bsent,      \* per job: the requests its adapter call sent
    \* ---- one job execution (_tts_job) ----
    tpc,        \* position of the job: "idle", "call", "returned", "raised"
    tret,       \* value returned by _tts_job
    tfs,        \* the output file and the temporary file of the job
    \* ---- _check_elevenlabs_quota / _resolve_engine called directly ----
    qpc, qret,
    rpc, rret,
    \* ---- the pure functions called directly ----
    fpc,        \* position of the call: "idle", "call", "again", "returned"
    fin,        \* arguments of the call
    fout,       \* values returned so far
    rng         \* what the calls of random.random() returned, in order

phaseVars == <<pc, engine_ctx, jobs, results, successful, failed, fb, batches, ret>>
batchVars == <<bpc, bjobs, bctx, jpc, sem, bans, bres, bret, bsent>>
jobVars == <<tpc, tret, tfs>>
quotaVars == <<qpc, qret>>
resolveVars == <<rpc, rret>>
fnVars == <<fpc, fin, fout, rng>>
envVars == <<cfg, net, req>>
vars == <<cfg, net, req, pc, engine_ctx, jobs, results, successful, failed, fb,
          batches, ret, bpc, bjobs, bctx, jpc, sem, bans, bres, bret, bsent,
          tpc, tret, tfs, qpc, qret, rpc, rret, fpc, fin, fout, rng>>

\* ------------------------------------------------------------------------
\* Python helpers
\* ------------------------------------------------------------------------

\* Python None, for string-valued arguments.
None == "<None>"

\* dict.get(k, default)
Get(d, k, default) == IF k \in DOMAIN d THEN d[k] ELSE default

\* dict.update(other): keys of other win.
Update(d, other) ==
    [k \in DOMAIN d \cup DOMAIN other |-> IF k \in DOMAIN other THEN other[k] ELSE d[k]]

Min(a, b) == IF a <= b THEN a ELSE b
Max(a, b) == IF a >= b THEN a ELSE b

\* [x for x in s if Test(x)]
Filter(s, Test(_)) == SelectSeq(s, Test)

\* ------------------------------------------------------------------------
\* Configuration (config.py) and credentials
\* ------------------------------------------------------------------------

ELEVENLABS_TTS_MODEL == "eleven_multilingual_v2"

\* An API key is modelled by what the code looks at: its length and whether
\* it starts with "sk-dummy".
KeyNone    == [len |-> 0,  dummy |-> FALSE]
KeyShort   == [len |-> 10, dummy |-> FALSE]
KeyDummy   == [len |-> 24, dummy |-> TRUE]
KeyValid   == [len |-> 11, dummy |-> FALSE]
ElKeys     == {KeyNone, KeyShort, KeyDummy, KeyValid}
MurfKeys   == {KeyNone, KeyValid}

\* Truthiness of a str.
Truthy(key) == key.len > 0

MinElKeyLen == 10

\* Same as _has_elevenlabs_credits but accepting placeholder keys.
HasElevenlabsCreditsNoDummyCheck(c) ==
    Truthy(c.ELEVENLABS_API_KEY) /\ c.ELEVENLABS_API_KEY.len > MinElKeyLen

\* AudioProducerAgent._has_elevenlabs_credits
HasElevenlabsCredits(c) ==
    /\ Truthy(c.ELEVENLABS_API_KEY)
    /\ ~c.ELEVENLABS_API_KEY.dummy
    /\ c.ELEVENLABS_API_KEY.len > MinElKeyLen

\* ------------------------------------------------------------------------
\* _check_elevenlabs_quota
\* ------------------------------------------------------------------------

QuotaThreshold == 500

\* Answers of GET /v1/user/subscription.  kind "response" carries a status
\* and a body; body "json" carries data, a dict with optional integer
\* fields; the other bodies make resp.json() or the subtraction raise.
QuotaData ==
    { [x \in {} |-> 0] }
    \cup { [character_count |-> c] : c \in {0, 9500} }
    \cup { [character_limit |-> l] : l \in {500, 501, 10000} }
    \cup { [character_count |-> c, character_limit |-> l] :
             c \in {0, 1, 499, 500, 9500, 10000}, l \in {0, 500, 501, 1000, 10000} }

QuotaStatuses == {200, 204, 401, 429, 500}

QuotaResponses ==
    { [kind |-> k] : k \in {"connect_error", "timeout"} }
    \cup { [kind |-> "response", status |-> s, body |-> b] :
             s \in QuotaStatuses, b \in {"invalid_json", "non_numeric"} }
    \cup { [kind |-> "response", status |-> s, body |-> "json", data |-> d] :
             s \in QuotaStatuses, d \in QuotaData }

\* Result of a call: either a returned value or a raised exception.
Returned(v) == [raised |-> FALSE, value |-> v]
Raised(e)   == [raised |-> TRUE, error |-> e]

\* The try block of _check_elevenlabs_quota (lines 663-675): the value it
\* returns, Raised when a statement in it raises, or falls through ("fall").
QuotaTry(r) ==
    IF r.kind # "response" THEN Raised(r.kind)
    ELSE IF r.status = 200 THEN
        IF r.body # "json" THEN Raised(r.body)
        ELSE LET remaining == Get(r.data, "character_count", 0)
                 limit     == Get(r.data, "character_limit", 0)
                 available == limit - remaining
             IN  Returned(available > QuotaThreshold)
    ELSE [raised |-> FALSE, fall |-> TRUE]

\* Same as _check_elevenlabs_quota with the comparison available >= 500.
CheckElevenlabsQuotaAtLeast(r) ==
    IF r.kind = "response" /\ r.status = 200 /\ r.body = "json"
    THEN Returned(Get(r.data, "character_limit", 0)
                  - Get(r.data, "character_count", 0) >= QuotaThreshold)
    ELSE Returned(FALSE)

\* AudioProducerAgent._check_elevenlabs_quota: except Exception -> warning,
\* then return False.
CheckElevenlabsQuota(r) ==
    LET t == QuotaTry(r)
    IN  IF t.raised THEN Returned(FALSE)
        ELSE IF "value" \in DOMAIN t THEN t
        ELSE Returned(FALSE)

\* ------------------------------------------------------------------------
\* Locale and voice tables (module level dicts, in insertion order)
\* ------------------------------------------------------------------------

\* Dicts whose iteration order matters are sequences of <<key, value>>.
Keys(t) == { t[i][1] : i \in 1..Len(t) }
Lookup(t, k) == t[CHOOSE i \in 1..Len(t) : t[i][1] = k][2]

EDGE_VOICE_MAP == <<
    <<"en-IN", "en-IN-NeerjaNeural">>, <<"en-NG", "en-NG-EzinneNeural">>,
    <<"en-KE", "en-KE-AsiliaNeural">>, <<"en-TZ", "en-TZ-ImaniNeural">>,
    <<"en-ZA", "en-ZA-LeahNeural">>,   <<"en-GH", "en-GH-EsiNeural">>,
    <<"en-US", "en-US-AriaNeural">>,   <<"en-GB", "en-GB-SoniaNeural">>,
    <<"fr-FR", "fr-FR-DeniseNeural">>, <<"fr-CM", "fr-FR-DeniseNeural">>,
    <<"fr-SN", "fr-FR-DeniseNeural">>, <<"fr-CD", "fr-FR-DeniseNeural">>,
    <<"sw-KE", "sw-KE-ZuriNeural">>,   <<"sw-TZ", "sw-TZ-RehemaNeural">>,
    <<"am-ET", "am-ET-MekdesNeural">>, <<"hi-IN", "hi-IN-SwaraNeural">>,
    <<"bn-IN", "bn-IN-TanishaaNeural">>, <<"ta-IN", "ta-IN-PallaviNeural">>,
    <<"te-IN", "te-IN-ShrutiNeural">>, <<"ur-PK", "ur-PK-UzmaNeural">>,
    <<"id-ID", "id-ID-GadisNeural">>,  <<"fil-PH", "fil-PH-BlessicaNeural">>,
    <<"pt-BR", "pt-BR-FranciscaNeural">>, <<"ar-SA", "ar-SA-ZariyahNeural">>,
    <<"zu-ZA", "zu-ZA-ThandoNeural">>, <<"so-SO", "so-SO-UbaxNeural">> >>

COUNTRY_LOCALE == <<
    <<"India", "en-IN">>, <<"Nigeria", "en-NG">>, <<"Kenya", "en-KE">>,
    <<"Tanzania", "en-TZ">>, <<"South Africa", "en-ZA">>, <<"Ghana", "en-GH">>,
    <<"Cameroon", "fr-CM">>, <<"Senegal", "fr-SN">>, <<"Congo (DRC)", "fr-CD">>,
    <<"Congo (Republic)", "fr-CD">>, <<"Ethiopia", "am-ET">>,
    <<"Mozambique", "pt-BR">>, <<"Rwanda", "en-KE">>, <<"Uganda", "en-KE">>,
    <<"Zambia", "en-ZA">>, <<"Zimbabwe", "en-ZA">>, <<"Botswana", "en-ZA">>,
    <<"Somalia", "so-SO">>, <<"Bangladesh", "bn-IN">>, <<"Pakistan", "ur-PK">>,
    <<"Indonesia", "id-ID">>, <<"Philippines", "fil-PH">> >>

LANGUAGE_TO_LOCALE == <<
    <<"hindi", "hi-IN">>, <<"hinglish", "hi-IN">>, <<"english", "en-US">>,
    <<"tamil", "ta-IN">>, <<"telugu", "te-IN">>, <<"bengali", "bn-IN">>,
    <<"urdu", "ur-PK">>, <<"swahili", "sw-KE">>, <<"kiswahili", "sw-KE">>,
    <<"amharic", "am-ET">>, <<"french", "fr-FR">>, <<"arabic", "ar-SA">>,
    <<"portuguese", "pt-BR">>, <<"indonesian", "id-ID">>, <<"filipino", "fil-PH">>,
    <<"somali", "so-SO">>, <<"zulu", "zu-ZA">>, <<"afrikaans", "en-ZA">> >>

EDGE_VOICE_POOL == <<
    <<"en-IN", << <<"en-IN-NeerjaNeural", "Neerja (Female)">>,
                  <<"en-IN-PrabhatNeural", "Prabhat (Male)">>,
                  <<"en-IN-NeerjaExpressiveNeural", "Neerja Expressive (Female)">> >> >>,
    <<"hi-IN", << <<"hi-IN-SwaraNeural", "Swara (Female)">>,
                  <<"hi-IN-MadhurNeural", "Madhur (Male)">>,
                  <<"hi-IN-SwaraNeural", "Swara Alt (Female)">> >> >>,
    <<"ta-IN", << <<"ta-IN-PallaviNeural", "Pallavi (Female)">>,
                  <<"ta-IN-ValluvarNeural", "Valluvar (Male)">>,
                  <<"ta-IN-PallaviNeural", "Pallavi Alt (Female)">> >> >>,
    <<"te-IN", << <<"te-IN-ShrutiNeural", "Shruti (Female)">>,
                  <<"te-IN-MohanNeural", "Mohan (Male)">>,
                  <<"te-IN-ShrutiNeural", "Shruti Alt (Female)">> >> >>,
    <<"bn-IN", << <<"bn-IN-TanishaaNeural", "Tanishaa (Female)">>,
                  <<"bn-IN-BashkarNeural", "Bashkar (Male)">>,
                  <<"bn-IN-TanishaaNeural", "Tanishaa Alt (Female)">> >> >>,
    <<"en-NG", << <<"en-NG-EzinneNeural", "Ezinne (Female)">>,
                  <<"en-NG-AbeoNeural", "Abeo (Male)">>,
                  <<"en-NG-EzinneNeural", "Ezinne Alt (Female)">> >> >>,
    <<"en-KE", << <<"en-KE-AsiliaNeural", "Asilia (Female)">>,
                  <<"en-KE-ChilembaNeural", "Chilemba (Male)">>,
                  <<"en-KE-AsiliaNeural", "Asilia Alt (Female)">> >> >>,
    <<"en-US", << <<"en-US-AriaNeural", "Aria (Female)">>,
                  <<"en-US-GuyNeural", "Guy (Male)">>,
                  <<"en-US-JennyNeural", "Jenny (Female)">> >> >>,
    <<"en-GB", << <<"en-GB-SoniaNeural", "Sonia (Female)">>,
                  <<"en-GB-RyanNeural", "Ryan (Male)">>,
                  <<"en-GB-LibbyNeural", "Libby (Female)">> >> >>,
    <<"fr-FR", << <<"fr-FR-DeniseNeural", "Denise (Female)">>,
                  <<"fr-FR-HenriNeural", "Henri (Male)">>,
                  <<"fr-FR-EloiseNeural", "Eloise (Female)">> >> >>,
    <<"pt-BR", << <<"pt-BR-FranciscaNeural", "Francisca (Female)">>,
                  <<"pt-BR-AntonioNeural", "Antonio (Male)">>,
                  <<"pt-BR-FranciscaNeural", "Francisca Alt (Female)">> >> >>,
    <<"ur-PK", << <<"ur-PK-UzmaNeural", "Uzma (Female)">>,
                  <<"ur-PK-AsadNeural", "Asad (Male)">>,
                  <<"ur-PK-UzmaNeural", "Uzma Alt (Female)">> >> >>,
    <<"id-ID", << <<"id-ID-GadisNeural", "Gadis (Female)">>,
                  <<"id-ID-ArdiNeural", "Ardi (Male)">>,
                  <<"id-ID-GadisNeural", "Gadis Alt (Female)">> >> >>,
    <<"sw-KE", << <<"sw-KE-ZuriNeural", "Zuri (Female)">>,
                  <<"sw-KE-RafikiNeural", "Rafiki (Male)">>,
                  <<"sw-KE-ZuriNeural", "Zuri Alt (Female)">> >> >> >>

MurfArohi    == <<"en-IN-arohi", "en-IN", "Promo", "Arohi (Female)">>
MurfZion     == <<"en-US-zion", "en-US", "Conversational", "Zion (Male)">>
MurfSamantha == <<"en-US-samantha", "en-US", "Promo", "Samantha (Female)">>
MurfAyushi   == <<"hi-IN-ayushi", "hi-IN", "Conversational", "Ayushi (Female)">>
MurfKabir    == <<"hi-IN-kabir", "hi-IN", "Conversational", "Kabir (Male)">>

MURF_VOICE_POOL == <<
    <<"hindi",    <<MurfAyushi, MurfKabir, MurfArohi>> >>,
    <<"hinglish", <<MurfAyushi, MurfKabir, MurfArohi>> >>,
    <<"english",  <<MurfArohi, MurfZion, MurfSamantha>> >>,
    <<"tamil",    << <<"ta-IN-iniya", "ta-IN", "Conversational", "Iniya (Female)">>,
                     MurfArohi, MurfZion >> >>,
    <<"telugu",   <<MurfArohi, MurfZion, MurfSamantha>> >>,
    <<"bengali",  << <<"bn-IN-anwesha", "bn-IN", "Conversational", "Anwesha (Female)">>,
                     MurfArohi, MurfZion >> >>,
    <<"french",   << <<"fr-FR-adélie", "fr-FR", "Narration", "Adélie (Female)">>,
                     <<"fr-FR-axel", "fr-FR", "Narration", "Axel (Male)">>,
                     <<"fr-FR-louise", "fr-FR", "Narration", "Louise (Female)">> >> >>,
    <<"portuguese", << <<"pt-BR-isadora", "pt-BR", "Conversational", "Isadora (Female)">>,
                       MurfZion, MurfSamantha >> >> >>

MURF_VOICE_MAP == <<
    <<"hindi",      <<"hi-IN-ayushi", "hi-IN", "Conversational">> >>,
    <<"hinglish",   <<"hi-IN-ayushi", "hi-IN", "Conversational">> >>,
    <<"tamil",      <<"ta-IN-iniya", "ta-IN", "Conversational">> >>,
    <<"telugu",     <<"en-IN-arohi", "te-IN", "Promo">> >>,
    <<"bengali",    <<"bn-IN-anwesha", "bn-IN", "Conversational">> >>,
    <<"kannada",    <<"en-UK-hazel", "kn-IN", "Conversational">> >>,
    <<"malayalam",  <<"en-IN-arohi", "en-IN", "Promo">> >>,
    <<"marathi",    <<"en-IN-arohi", "en-IN", "Promo">> >>,
    <<"punjabi",    <<"en-IN-arohi", "en-IN", "Promo">> >>,
    <<"gujarati",   <<"bn-IN-anwesha", "gu-IN", "Conversational">> >>,
    <<"english",    <<"en-IN-arohi", "en-IN", "Promo">> >>,
    <<"french",     <<"fr-FR-adélie", "fr-FR", "Narration">> >>,
    <<"portuguese", <<"pt-BR-isadora", "pt-BR", "Conversational">> >>,
    <<"indonesian", <<"en-US-zion", "id-ID", "Conversational">> >>,
    <<"filipino",   <<"en-IN-arohi", "en-IN", "Promo">> >>,
    <<"german",     <<"de-DE-josephine", "de-DE", "Promo">> >>,
    <<"spanish",    <<"en-US-samantha", "es-ES", "Promo">> >> >>

MURF_COUNTRY_VOICE == <<
    <<"India",        <<"en-IN-arohi", "en-IN", "Promo">> >>,
    <<"Nigeria",      <<"en-US-samantha", "en-US", "Promo">> >>,
    <<"Kenya",        <<"en-US-samantha", "en-US", "Promo">> >>,
    <<"Tanzania",     <<"en-US-samantha", "en-US", "Promo">> >>,
    <<"South Africa", <<"en-US-samantha", "en-US", "Promo">> >>,
    <<"Ghana",        <<"en-US-samantha", "en-US", "Promo">> >>,
    <<"Ethiopia",     <<"en-US-samantha", "en-US", "Promo">> >>,
    <<"Cameroon",     <<"fr-FR-adélie", "fr-FR", "Narration">> >>,
    <<"Senegal",      <<"fr-FR-adélie", "fr-FR", "Narration">> >>,
    <<"Congo (DRC)",  <<"fr-FR-adélie", "fr-FR", "Narration">> >>,
    <<"Mozambique",   <<"pt-BR-isadora", "pt-BR", "Conversational">> >>,
    <<"Bangladesh",   <<"bn-IN-anwesha", "bn-IN", "Conversational">> >>,
    <<"Pakistan",     <<"en-US-samantha", "en-US", "Promo">> >>,
    <<"Indonesia",    <<"en-US-zion", "id-ID", "Conversational">> >>,
    <<"Philippines",  <<"en-IN-arohi", "en-IN", "Promo">> >> >>

\* lang_for_country of _get_murf_voice_pool
LANG_FOR_COUNTRY == <<
    <<"India", "english">>, <<"Nigeria", "english">>, <<"Kenya", "english">>,
    <<"Cameroon", "french">>, <<"Senegal", "french">>,
    <<"Mozambique", "portuguese">>, <<"Bangladesh", "bengali">> >>

\* The language arguments explored, each with language.lower().strip() and
\* the dict keys that are substrings of that (`lang_key in lang_lower`).
LanguageInputs == <<
    [raw |-> None,                lower |-> "",                  has |-> {}],
    [raw |-> "",                  lower |-> "",                  has |-> {}],
    [raw |-> "   ",               lower |-> "",                  has |-> {}],
    [raw |-> "Hindi",             lower |-> "hindi",             has |-> {"hindi"}],
    [raw |-> " French ",          lower |-> "french",            has |-> {"french"}],
    [raw |-> "Kiswahili",         lower |-> "kiswahili",         has |-> {"swahili", "kiswahili"}],
    [raw |-> "Hindi/English mix", lower |-> "hindi/english mix", has |-> {"hindi", "english"}],
    [raw |-> "Amharic",           lower |-> "amharic",           has |-> {"amharic"}],
    [raw |-> "German",            lower |-> "german",            has |-> {"german"}],
    [raw |-> "Klingon",           lower |-> "klingon",           has |-> {}] >>

Languages == { LanguageInputs[i].raw : i \in 1..Len(LanguageInputs) }
LangInfo(language) ==
    LanguageInputs[CHOOSE i \in 1..Len(LanguageInputs) : LanguageInputs[i].raw = language]
LowerStrip(language) == LangInfo(language).lower
Contains(language, key) == key \in LangInfo(language).has

\* bool(language): None and "" are falsy.
LangTruthy(language) == language # None /\ language # ""

Countries == {"Kenya", "India", "Cameroon", "Ethiopia", "Philippines", "Atlantis", ""}

\* locale.split("-")[0] for the locales of the tables: the text before the
\* first "-".
LangPrefix(locale) ==
    CASE locale \in {"en-IN", "en-NG", "en-KE", "en-TZ", "en-ZA", "en-GH", "en-US", "en-GB"}
                                                        -> "en"
      [] locale \in {"fr-FR", "fr-CM", "fr-SN", "fr-CD"} -> "fr"
      [] locale \in {"sw-KE", "sw-TZ"}                   -> "sw"
      [] locale = "am-ET" -> "am"  [] locale = "hi-IN" -> "hi"
      [] locale = "bn-IN" -> "bn"  [] locale = "ta-IN" -> "ta"
      [] locale = "te-IN" -> "te"  [] locale = "ur-PK" -> "ur"
      [] locale = "id-ID" -> "id"  [] locale = "fil-PH" -> "fil"
      [] locale = "pt-BR" -> "pt"  [] locale = "ar-SA" -> "ar"
      [] locale = "zu-ZA" -> "zu"  [] locale = "so-SO" -> "so"

\* First entry of an ordered dict whose key satisfies Test, 0 if none.
FirstIndex(t, Test(_)) ==
    IF \E i \in 1..Len(t) : Test(t[i][1])
    THEN CHOOSE i \in 1..Len(t) : Test(t[i][1]) /\ \A j \in 1..(i - 1) : ~Test(t[j][1])
    ELSE 0

\* dict.get on an ordered dict.
GetT(t, k, default) == IF k \in Keys(t) THEN Lookup(t, k) ELSE default

\* _get_edge_voice_pool
GetEdgeVoicePool(country, language) ==
    LET lang_lower == LowerStrip(language)
        partial == FirstIndex(LANGUAGE_TO_LOCALE, LAMBDA k : Contains(language, k))
        by_lang ==
            IF ~LangTruthy(language) THEN None
            ELSE IF lang_lower \in Keys(LANGUAGE_TO_LOCALE)
                 THEN Lookup(LANGUAGE_TO_LOCALE, lang_lower)
            ELSE IF partial # 0 THEN LANGUAGE_TO_LOCALE[partial][2]
            ELSE None
        locale == IF by_lang = None THEN GetT(COUNTRY_LOCALE, country, "en-US") ELSE by_lang
        lang_prefix == LangPrefix(locale)
        by_prefix == FirstIndex(EDGE_VOICE_POOL, LAMBDA k : LangPrefix(k) = lang_prefix)
        primary == GetT(EDGE_VOICE_MAP, locale, "en-US-AriaNeural")
    IN  IF locale \in Keys(EDGE_VOICE_POOL) THEN Lookup(EDGE_VOICE_POOL, locale)
        ELSE IF by_prefix # 0 THEN EDGE_VOICE_POOL[by_prefix][2]
        ELSE << <<primary, "Voice 1">>, <<primary, "Voice 2">>, <<primary, "Voice 3">> >>

\* _get_murf_voice_pool
GetMurfVoicePool(country, language) ==
    LET lang_lower == LowerStrip(language)
        partial == FirstIndex(MURF_VOICE_POOL, LAMBDA k : Contains(language, k))
        mapped == GetT(LANG_FOR_COUNTRY, country, "english")
    IN  IF LangTruthy(language) /\ lang_lower \in Keys(MURF_VOICE_POOL)
        THEN Lookup(MURF_VOICE_POOL, lang_lower)
        ELSE IF LangTruthy(language) /\ partial # 0 THEN MURF_VOICE_POOL[partial][2]
        ELSE IF mapped \in Keys(MURF_VOICE_POOL) THEN Lookup(MURF_VOICE_POOL, mapped)
        ELSE Lookup(MURF_VOICE_POOL, "english")

\* _pick_edge_voice
PickEdgeVoice(country, language) ==
    LET lang_lower == LowerStrip(language)
        direct == IF lang_lower \in Keys(LANGUAGE_TO_LOCALE)
                  THEN Lookup(LANGUAGE_TO_LOCALE, lang_lower) ELSE None
        partial == FirstIndex(LANGUAGE_TO_LOCALE,
                       LAMBDA k : /\ Contains(language, k)
                                  /\ Lookup(LANGUAGE_TO_LOCALE, k) \in Keys(EDGE_VOICE_MAP))
        locale == GetT(COUNTRY_LOCALE, country, "en-US")
    IN  IF LangTruthy(language) /\ direct # None /\ direct \in Keys(EDGE_VOICE_MAP)
        THEN Lookup(EDGE_VOICE_MAP, direct)
        ELSE IF LangTruthy(language) /\ partial # 0
        THEN Lookup(EDGE_VOICE_MAP, LANGUAGE_TO_LOCALE[partial][2])
        ELSE GetT(EDGE_VOICE_MAP, locale, "en-US-AriaNeural")

\* _pick_murf_voice
PickMurfVoice(country, language) ==
    LET lang_lower == LowerStrip(language)
        partial == FirstIndex(MURF_VOICE_MAP, LAMBDA k : Contains(language, k))
    IN  IF LangTruthy(language) /\ lang_lower \in Keys(MURF_VOICE_MAP)
        THEN Lookup(MURF_VOICE_MAP, lang_lower)
        ELSE IF LangTruthy(language) /\ partial # 0 THEN MURF_VOICE_MAP[partial][2]
        ELSE IF country \in Keys(MURF_COUNTRY_VOICE) THEN Lookup(MURF_COUNTRY_VOICE, country)
        ELSE <<"en-IN-arohi", "en-IN", "Promo">>

\* ------------------------------------------------------------------------
\* Engine resolver
\* ------------------------------------------------------------------------

Providers == {"murf", "elevenlabs", "edge-tts"}

\* voice_selection arguments: dicts whose keys may be missing.  Voice
\* settings are kept in hundredths (stability 0.5 is 50).
VsFull ==
    [voice_settings |-> [stability |-> 50, similarity_boost |-> 75],
     selected_voice |-> [voice_id |-> "el-selected", name |-> "Rachel"],
     alternative_voices |-> << [voice_id |-> "el-alt-1", name |-> "Adam"],
                               [name |-> "Bella"],
                               [voice_id |-> "el-alt-3", name |-> "Chris"] >>,
     elevenlabs_api_params |-> [model_id |-> "eleven_v3"]]
VsOneAlt ==
    [voice_settings |-> [stability |-> 35],
     selected_voice |-> [voice_id |-> "el-selected"],
     alternative_voices |-> << [voice_id |-> "el-alt-1"] >>,
     elevenlabs_api_params |-> [model_id |-> "eleven_turbo_v2"]]
VsNoAlt ==
    [selected_voice |-> [voice_id |-> "el-selected", name |-> "Rachel"]]
VsNoVoiceId ==
    [voice_settings |-> [stability |-> 50], selected_voice |-> [name |-> "Rachel"]]
VsNoSelected ==
    [voice_settings |-> [stability |-> 50]]
VoiceSelections == {VsFull, VsOneAlt, VsNoAlt, VsNoVoiceId, VsNoSelected}

EmptyDict == [x \in {} |-> 0]

\* Answers of GET /v2/voices as _validate_voice_id sees them.
ValidateResponses == {"listed", "not_listed", "no_voices", "error"}

\* AudioProducerAgent._validate_voice_id
ValidateVoiceId(voice_id, r) ==
    IF r = "not_listed" THEN "el-first-listed" ELSE voice_id

\* Same as SelectEngine, without the quota test of ElevenLabs.
SelectEngineIgnoreQuota(override, c, has_quota) ==
    IF override \in {"murf", "elevenlabs", "edge-tts"} THEN override
    ELSE IF Truthy(c.MURF_API_KEY) THEN "murf"
    ELSE IF HasElevenlabsCredits(c) THEN "elevenlabs"
    ELSE "edge-tts"

\* Lines 915-930 of _resolve_engine: the provider selected from the override
\* and the credentials, given the answer of the quota check.
SelectEngine(override, c, has_quota) ==
    IF override \in {"murf", "elevenlabs", "edge-tts"} THEN override
    ELSE IF Truthy(c.MURF_API_KEY) THEN "murf"
    ELSE IF HasElevenlabsCredits(c) /\ has_quota THEN "elevenlabs"
    ELSE "edge-tts"

\* Same as Downgrade, without the credential test of ElevenLabs.
DowngradeMurfOnly(e, c) ==
    IF e = "murf" /\ ~Truthy(c.MURF_API_KEY) THEN "edge-tts" ELSE e

\* Lines 932-946: a provider without credentials is replaced by edge-tts.
Downgrade(e, c) ==
    LET e1 == IF e = "murf" /\ ~Truthy(c.MURF_API_KEY) THEN "edge-tts" ELSE e
    IN  IF e1 = "elevenlabs" /\ ~HasElevenlabsCredits(c) THEN "edge-tts" ELSE e1

\* Same as BuildVoicePool, without the padding loop of lines 972-973.
BuildVoicePoolNoPadding(tts_engine, vs, country, language, el_voice_id, voice_name) ==
    IF tts_engine = "murf" THEN
        LET p == GetMurfVoicePool(country, language)
        IN  [i \in 1..Len(p) |->
                [murf_voice_id |-> p[i][1], murf_locale |-> p[i][2],
                 murf_style |-> p[i][3], voice_label |-> p[i][4]]]
    ELSE IF tts_engine = "edge-tts" THEN
        LET p == GetEdgeVoicePool(country, language)
        IN  [i \in 1..Len(p) |-> [edge_voice |-> p[i][1], voice_label |-> p[i][2]]]
    ELSE
        LET alt_voices == Get(vs, "alternative_voices", << >>)
            first == << <<el_voice_id, voice_name>> >>
            alts == [i \in 1..Min(2, Len(alt_voices)) |->
                        << Get(alt_voices[i], "voice_id", el_voice_id),
                           Get(alt_voices[i], "name", "Alt") >>]
            el_pool == first \o alts
        IN  [i \in 1..Len(el_pool) |->
                [el_voice_id |-> el_pool[i][1], voice_label |-> el_pool[i][2]]]

\* Lines 960-976: the voice pool of the resolved provider.
BuildVoicePool(tts_engine, vs, country, language, el_voice_id, voice_name) ==
    IF tts_engine = "murf" THEN
        LET p == GetMurfVoicePool(country, language)
        IN  [i \in 1..Len(p) |->
                [murf_voice_id |-> p[i][1], murf_locale |-> p[i][2],
                 murf_style |-> p[i][3], voice_label |-> p[i][4]]]
    ELSE IF tts_engine = "edge-tts" THEN
        LET p == GetEdgeVoicePool(country, language)
        IN  [i \in 1..Len(p) |-> [edge_voice |-> p[i][1], voice_label |-> p[i][2]]]
    ELSE
        LET alt_voices == Get(vs, "alternative_voices", << >>)
            first == << <<el_voice_id, voice_name>> >>
            alts == [i \in 1..Min(2, Len(alt_voices)) |->
                        << Get(alt_voices[i], "voice_id", el_voice_id),
                           Get(alt_voices[i], "name", "Alt") >>]
            el_pool == first \o alts
            padded == [i \in 1..Max(3, Len(el_pool)) |->
                        IF i <= Len(el_pool) THEN el_pool[i] ELSE el_pool[1]]
        IN  [i \in 1..Len(padded) |->
                [el_voice_id |-> padded[i][1], voice_label |-> padded[i][2]]]

\* AudioProducerAgent._resolve_engine.  The answer is Returned(engine_ctx) or,
\* when line 948 finds no selected voice id, Raised("KeyError"); the raised
\* record keeps the local tts_engine at the moment of the raise.
ResolveEngineWith(vs, country, language, override, c, n) ==
    LET voice_settings == Get(vs, "voice_settings", EmptyDict)
        voice_name == Get(Get(vs, "selected_voice", EmptyDict), "name", "Unknown")
        needs_quota == /\ override \notin {"murf", "elevenlabs", "edge-tts"}
                       /\ ~Truthy(c.MURF_API_KEY)
                       /\ HasElevenlabsCredits(c)
        quota == IF needs_quota THEN CheckElevenlabsQuota(n.quota) ELSE Returned(FALSE)
        selected == SelectEngine(override, c, ~quota.raised /\ quota.value)
        tts_engine == Downgrade(selected, c)
        murf == IF tts_engine = "murf" THEN PickMurfVoice(country, language)
                ELSE <<"", "", "">>
        has_voice_id == /\ "selected_voice" \in DOMAIN vs
                        /\ "voice_id" \in DOMAIN vs.selected_voice
        api_params == Get(vs, "elevenlabs_api_params", EmptyDict)
        model_id == Get(api_params, "model_id", ELEVENLABS_TTS_MODEL)
        el_model_id == IF tts_engine = "elevenlabs" /\ model_id # "eleven_v3"
                       THEN model_id ELSE ELEVENLABS_TTS_MODEL
        el_voice_id == IF tts_engine = "elevenlabs"
                       THEN ValidateVoiceId(vs.selected_voice.voice_id, n.validate)
                       ELSE ""
        edge_voice == IF tts_engine = "edge-tts" THEN PickEdgeVoice(country, language)
                      ELSE ""
    IN  IF quota.raised THEN [raised |-> TRUE, error |-> quota.error, tts_engine |-> "edge-tts"]
        ELSE IF tts_engine = "elevenlabs" /\ ~has_voice_id
        THEN [raised |-> TRUE, error |-> "KeyError", tts_engine |-> tts_engine]
        ELSE Returned(
            [tts_engine |-> tts_engine,
             voice_settings |-> voice_settings,
             voice_name |-> voice_name,
             el_voice_id |-> el_voice_id,
             el_model_id |-> el_model_id,
             edge_voice |-> edge_voice,
             murf_voice_id |-> murf[1],
             murf_locale |-> murf[2],
             murf_style |-> murf[3],
             voice_pool |-> BuildVoicePool(tts_engine, vs, country, language,
                                           el_voice_id, voice_name)])

\* _resolve_engine under the configuration and the network of the state.
ResolveEngine(vs, country, language, override) ==
    ResolveEngineWith(vs, country, language, override, cfg, net)

\* ------------------------------------------------------------------------
\* Machines not under execution
\* ------------------------------------------------------------------------

PhaseIdle ==
    /\ pc = "idle" /\ engine_ctx = EmptyDict /\ jobs = << >> /\ results = << >>
    /\ successful = << >> /\ failed = << >> /\ fb = 0 /\ batches = << >>
    /\ ret = EmptyDict

BatchIdle ==
    /\ bpc = "idle" /\ bjobs = << >> /\ bctx = EmptyDict /\ jpc = << >>
    /\ sem = 0 /\ bans = << >> /\ bres = << >> /\ bret = << >> /\ bsent = << >>

JobIdle == tpc = "idle" /\ tret = EmptyDict /\ tfs = EmptyDict
FnIdle == fpc = "idle" /\ fin = EmptyDict /\ fout = << >> /\ rng = << >>

QuotaIdle == qpc = "idle" /\ qret = EmptyDict
ResolveIdle == rpc = "idle" /\ rret = EmptyDict

NoReq == EmptyDict

\* Quota answers used where the quota check is one input among many.
QuotaUsableAnswer ==
    [kind |-> "response", status |-> 200, body |-> "json",
     data |-> [character_count |-> 0, character_limit |-> 10000]]
QuotaSpentAnswer ==
    [kind |-> "response", status |-> 200, body |-> "json",
     data |-> [character_count |-> 9500, character_limit |-> 10000]]
QuotaTimeout == [kind |-> "timeout"]

AllUp == [p \in Providers |-> "up"]

\* ------------------------------------------------------------------------
\* _check_elevenlabs_quota called on its own
\* ------------------------------------------------------------------------

InitQuota ==
    /\ cfg = [MURF_API_KEY |-> KeyNone, ELEVENLABS_API_KEY |-> KeyValid]
    /\ net \in [quota : QuotaResponses, validate : {"listed"}, health : {AllUp}]
    /\ req = NoReq
    /\ qpc = "call" /\ qret = EmptyDict
    /\ PhaseIdle /\ BatchIdle /\ ResolveIdle /\ JobIdle /\ FnIdle

QuotaCall ==
    /\ qpc = "call"
    /\ qret' = CheckElevenlabsQuota(net.quota)
    /\ qpc' = IF qret'.raised THEN "raised" ELSE "returned"
    /\ UNCHANGED <<envVars, phaseVars, batchVars, resolveVars, jobVars, fnVars>>

NextQuota == QuotaCall

SpecQuota == InitQuota /\ [][NextQuota]_vars

\* ------------------------------------------------------------------------
\* _resolve_engine called on its own
\* ------------------------------------------------------------------------

Overrides == {None, "murf", "elevenlabs", "edge-tts", "azure", ""}

InitResolve ==
    /\ cfg \in [MURF_API_KEY : MurfKeys, ELEVENLABS_API_KEY : ElKeys]
    /\ net \in [quota : {QuotaUsableAnswer, QuotaSpentAnswer, QuotaTimeout},
                validate : {"listed", "not_listed"}, health : {AllUp}]
    /\ req \in [voice_selection : VoiceSelections, country : Countries,
                language : Languages, tts_engine_override : Overrides]
    /\ rpc = "call" /\ rret = EmptyDict
    /\ PhaseIdle /\ BatchIdle /\ QuotaIdle /\ JobIdle /\ FnIdle

ResolveCall ==
    /\ rpc = "call"
    /\ rret' = ResolveEngine(req.voice_selection, req.country, req.language,
                             req.tts_engine_override)
    /\ rpc' = IF rret'.raised THEN "raised" ELSE "returned"
    /\ UNCHANGED <<envVars, phaseVars, batchVars, quotaVars, jobVars, fnVars>>

NextResolve == ResolveCall

SpecResolve == InitResolve /\ [][NextResolve]_vars

\* ------------------------------------------------------------------------
\* Properties of the quota check and of the resolver
\* ------------------------------------------------------------------------

\* The account endpoint answered 200 with character_limit - character_count
\* above 500 (a missing field counts as 0).
AnsweredUsable(r) ==
    /\ r.kind = "response"
    /\ r.status = 200
    /\ r.body = "json"
    /\ (IF "character_limit" \in DOMAIN r.data THEN r.data.character_limit ELSE 0)
         - (IF "character_count" \in DOMAIN r.data THEN r.data.character_count ELSE 0) > 500

\* C10: the quota check never raises; it answers True exactly when the
\* endpoint answered 200 with more than 500 characters left, and False on
\* every exception, timeout, non-200 status or unreadable body.
C10_QuotaConservative ==
    qpc # "call" =>
        /\ qpc = "returned"
        /\ ~qret.raised
        /\ qret.value = AnsweredUsable(net.quota)
        /\ (net.quota.kind # "response" => qret.value = FALSE)
        /\ (net.quota.kind = "response" /\ net.quota.status # 200 => qret.value = FALSE)

\* A timeout of the account endpoint was reported as insufficient quota.
C10_Witness ==
    qpc = "returned" /\ net.quota.kind = "timeout" /\ qret = Returned(FALSE)

\* The provider the resolver selected (of the returned context, or the
\* local tts_engine when line 948 raised).
ResolvedEngine(r) == IF r.raised THEN r.tts_engine ELSE r.value.tts_engine

KeyUsable(key) == key.len > 0 /\ ~key.dummy /\ key.len > 10

\* C8: without a recognised override exactly one provider is selected:
\* Murf if a Murf key is configured; otherwise ElevenLabs exactly when its
\* key passes the credential test and the quota check reports usable quota;
\* otherwise edge-tts.
C8_Priority ==
    (rpc # "call" /\ req.tts_engine_override \notin {"murf", "elevenlabs", "edge-tts"}) =>
        ResolvedEngine(rret) =
            IF cfg.MURF_API_KEY.len > 0 THEN "murf"
            ELSE IF KeyUsable(cfg.ELEVENLABS_API_KEY) /\ AnsweredUsable(net.quota)
                 THEN "elevenlabs"
            ELSE "edge-tts"

\* No override, no Murf key, usable ElevenLabs key and quota: ElevenLabs.
C8_Witness ==
    /\ rpc = "returned" /\ req.tts_engine_override = None
    /\ cfg.MURF_API_KEY.len = 0
    /\ rret.value.tts_engine = "elevenlabs"

\* The forced provider has no usable credentials.
ForcedWithoutCredentials ==
    \/ req.tts_engine_override = "murf" /\ cfg.MURF_API_KEY.len = 0
    \/ req.tts_engine_override = "elevenlabs" /\ ~KeyUsable(cfg.ELEVENLABS_API_KEY)

\* C9: a forced provider without credentials yields, without raising, an
\* edge-tts engine context whose voice pool is the edge-tts pool.
C9_ForcedDowngrade ==
    (rpc # "call" /\ ForcedWithoutCredentials) =>
        /\ rpc = "returned"
        /\ ~rret.raised
        /\ rret.value.tts_engine = "edge-tts"
        /\ rret.value.edge_voice # ""
        /\ Len(rret.value.voice_pool) > 0
        /\ \A i \in 1..Len(rret.value.voice_pool) :
              DOMAIN rret.value.voice_pool[i] = {"edge_voice", "voice_label"}

\* ElevenLabs forced with a placeholder key and no selected voice id.
C9_Witness ==
    /\ rpc = "returned" /\ req.tts_engine_override = "elevenlabs"
    /\ cfg.ELEVENLABS_API_KEY.dummy
    /\ "selected_voice" \notin DOMAIN req.voice_selection
    /\ rret.value.tts_engine = "edge-tts"

\* The key under which a pool entry of a provider names its voice.
VoiceKey(tts_engine) ==
    CASE tts_engine = "murf" -> "murf_voice_id"
      [] tts_engine = "elevenlabs" -> "el_voice_id"
      [] OTHER -> "edge_voice"

\* C11: the voice pool of every returned engine context has exactly 3
\* entries, each naming a voice of the resolved provider; an ElevenLabs pool
\* holds the selected voice, then at most two alternative voices, and is
\* padded to 3 with repeats of its first entry.
C11_PoolOfThree ==
    rpc = "returned" =>
        LET ctx == rret.value
            pool == ctx.voice_pool
            n_alt == Min(2, Len(Get(req.voice_selection, "alternative_voices", << >>)))
        IN  /\ Len(pool) = 3
            /\ \A i \in 1..Len(pool) :
                   {VoiceKey(ctx.tts_engine), "voice_label"} \subseteq DOMAIN pool[i]
            /\ ctx.tts_engine = "elevenlabs" =>
                   /\ pool[1].el_voice_id = ctx.el_voice_id
                   /\ \A i \in (n_alt + 2)..3 : pool[i] = pool[1]

\* ElevenLabs resolved for an unknown country with no alternative voice:
\* the second and third entries repeat the first.
C11_Witness ==
    /\ rpc = "returned" /\ rret.value.tts_engine = "elevenlabs"
    /\ req.country = "Atlantis"
    /\ "alternative_voices" \notin DOMAIN req.voice_selection
    /\ Len(rret.value.voice_pool) = 3
    /\ rret.value.voice_pool[3] = rret.value.voice_pool[1]

\* ------------------------------------------------------------------------
\* Script texts and job expansion
\* ------------------------------------------------------------------------

\* A text is modelled by what the scheduler looks at: the number of leading
\* whitespace characters, the number of characters from the first
\* non-whitespace character on (0 for a blank text), and its words.
Text(words, lead, rest) == [words |-> words, lead |-> lead, rest |-> rest]
NoneText == Text(None, 0, 0)

\* `not t`: None or the empty string.
Falsy(t) == t = NoneText \/ (t.lead = 0 /\ t.rest = 0)
\* `not t or not t.strip()`
Blank(t) == Falsy(t) \/ t.rest = 0

HookChars == 200

\* t[:200]
Truncate(t) ==
    LET lead == Min(t.lead, HookChars)
    IN  Text(t.words, lead, Min(t.rest, HookChars - lead))

\* Path of an output file under the session directory:
\* variant_{variant_id}_voice{voice}_{type}.mp3
OutputPath(variant_id, voice, type) == <<"variant", variant_id, "voice", voice, type>>

\* Same as HookText, without the cut of line 1116.
HookTextWhole(script) ==
    LET hook == Get(script, "hook", Text("", 0, 0))
        full == Get(script, "full_script", Text("", 0, 0))
    IN  IF ~Blank(hook) THEN hook ELSE full

\* Lines 1110-1119 (and 1160-1166): the hook text of a variant, blank when
\* the variant yields no preview job.
HookText(script) ==
    LET hook == Get(script, "hook", Text("", 0, 0))
        full == Get(script, "full_script", Text("", 0, 0))
    IN  IF ~Blank(hook) THEN hook
        ELSE IF Falsy(full) THEN full ELSE Truncate(full)

\* `t or ""`
OrEmpty(t) == IF Falsy(t) THEN Text("", 0, 0) ELSE t

\* Same as RetryHookText, without the cut of line 1164.
RetryHookTextWhole(script) ==
    LET hook == OrEmpty(Get(script, "hook", Text("", 0, 0)))
    IN  IF hook.rest # 0 THEN hook
        ELSE OrEmpty(Get(script, "full_script", Text("", 0, 0)))

\* Lines 1162-1164: the hook text of a variant in a retry.
RetryHookText(script) ==
    LET hook == OrEmpty(Get(script, "hook", Text("", 0, 0)))
    IN  IF hook.rest # 0 THEN hook
        ELSE Truncate(OrEmpty(Get(script, "full_script", Text("", 0, 0))))

\* Concatenation of the job lists of the variants, in order.
RECURSIVE Flatten(_)
Flatten(ss) == IF ss = << >> THEN << >> ELSE Head(ss) \o Flatten(Tail(ss))

\* Lines 1121-1132: the preview jobs of one variant, one per pool voice.
PreviewJobsOf(script, voice_pool, n) ==
    LET variant_id == Get(script, "variant_id", 0)
        theme == Get(script, "theme", "unknown")
        hook_text == HookText(script)
    IN  IF Blank(hook_text) THEN << >>
        ELSE [v \in 1..n |->
                Update([text |-> hook_text,
                        path |-> OutputPath(variant_id, v, "hook_preview"),
                        variant_id |-> variant_id,
                        type |-> "hook_preview",
                        theme |-> theme,
                        voice_index |-> v,
                        skip_bgm |-> FALSE],
                       voice_pool[v])]

PreviewVoices == 3

\* Lines 1108-1132 of run_hook_previews: range(3) voices per variant.
BuildPreviewJobs(script_list, voice_pool) ==
    Flatten([k \in 1..Len(script_list) |->
                PreviewJobsOf(script_list[k], voice_pool, PreviewVoices)])

\* Lines 1159-1177: the preview jobs of one variant in a retry, one per
\* voice of range(min(3, len(voice_pool))).
PreviewRetryJobsOf(script, voice_pool) ==
    LET variant_id == Get(script, "variant_id", 0)
        theme == Get(script, "theme", "unknown")
        hook_text == RetryHookText(script)
    IN  IF hook_text.rest = 0 THEN << >>
        ELSE [vi \in 1..Min(PreviewVoices, Len(voice_pool)) |->
                Update([text |-> hook_text,
                        path |-> OutputPath(variant_id, vi, "hook_preview"),
                        variant_id |-> variant_id,
                        type |-> "hook_preview",
                        theme |-> theme,
                        voice_index |-> vi,
                        skip_bgm |-> FALSE],
                       voice_pool[vi])]

\* Lines 1158-1178: the retry list.
BuildPreviewRetryJobs(script_list, voice_pool) ==
    Flatten([k \in 1..Len(script_list) |->
                PreviewRetryJobsOf(script_list[k], voice_pool)])

ALL_SECTIONS == << <<"full_script", "main">>, <<"fallback_1", "fallback1">>,
                   <<"fallback_2", "fallback2">>, <<"polite_closure", "closure">> >>

\* Same as FinalJobsOf, without the blank test of lines 1251-1252.
FinalJobsOfAllSections(script, voice_pool, voice_choices, bgm_style) ==
    LET variant_id == Get(script, "variant_id", 0)
        theme == Get(script, "theme", "unknown")
        chosen_idx == Max(0, Min(Get(voice_choices, variant_id, 1) - 1,
                                 Len(voice_pool) - 1))
    IN  [k \in 1..Len(ALL_SECTIONS) |->
            Update([text |-> Get(script, ALL_SECTIONS[k][1], Text("", 0, 0)),
                    path |-> OutputPath(variant_id, chosen_idx + 1, ALL_SECTIONS[k][2]),
                    variant_id |-> variant_id,
                    type |-> ALL_SECTIONS[k][2],
                    theme |-> theme,
                    voice_index |-> chosen_idx + 1,
                    skip_bgm |-> FALSE,
                    bgm_style |-> bgm_style],
                   voice_pool[chosen_idx + 1])]

\* Lines 1244-1264 (and 1293-1311): the final jobs of one variant.
FinalJobsOf(script, voice_pool, voice_choices, bgm_style) ==
    LET variant_id == Get(script, "variant_id", 0)
        theme == Get(script, "theme", "unknown")
        chosen_idx == Max(0, Min(Get(voice_choices, variant_id, 1) - 1,
                                 Len(voice_pool) - 1))
        present == SelectSeq(ALL_SECTIONS,
                       LAMBDA fa : ~Blank(Get(script, fa[1], Text("", 0, 0))))
    IN  [k \in 1..Len(present) |->
            Update([text |-> script[present[k][1]],
                    path |-> OutputPath(variant_id, chosen_idx + 1, present[k][2]),
                    variant_id |-> variant_id,
                    type |-> present[k][2],
                    theme |-> theme,
                    voice_index |-> chosen_idx + 1,
                    skip_bgm |-> FALSE,
                    bgm_style |-> bgm_style],
                   voice_pool[chosen_idx + 1])]

\* Lines 1242-1264 of run_final_audio.
BuildFinalJobs(script_list, voice_pool, voice_choices, bgm_style) ==
    Flatten([k \in 1..Len(script_list) |->
                FinalJobsOf(script_list[k], voice_pool, voice_choices, bgm_style)])

\* Script variants.  V1 is the variant of the end-to-end scenario.
V1 == [variant_id |-> 1, theme |-> "offer",
       hook |-> Text("Special offer!", 0, 14),
       full_script |-> Text("Dial now and win ...", 0, 320),
       fallback_1 |-> Text("Hurry!", 0, 6),
       fallback_2 |-> Text("", 0, 0),
       polite_closure |-> Text("Thanks, goodbye.", 0, 16)]
V2 == [variant_id |-> 2,
       hook |-> Text("   ", 3, 0),
       full_script |-> Text("  Great news ...", 2, 260),
       fallback_1 |-> Text("Last chance.", 0, 12),
       fallback_2 |-> Text("Press one.", 0, 10),
       polite_closure |-> Text("Bye.", 0, 4)]
V3 == [variant_id |-> 3, theme |-> "silent",
       hook |-> NoneText,
       full_script |-> Text("   ", 3, 0),
       fallback_1 |-> Text("", 0, 0)]
V4 == [variant_id |-> 4, theme |-> "hookless",
       full_script |-> Text("Win big today ...", 0, 90),
       polite_closure |-> Text("Goodbye.", 0, 8)]
V5 == [variant_id |-> 5, theme |-> "indented",
       hook |-> Text("", 0, 0),
       full_script |-> Text("Call us ...", 200, 40)]

\* ------------------------------------------------------------------------
\* Speech synthesis adapters and _tts_job
\* ------------------------------------------------------------------------

\* What the environment does during one adapter call.
\*   "ok"             the provider answers and the mixer works
\*   "http_error"     murf, elevenlabs: raise_for_status raises
\*   "no_audio_url"   murf: an answer without audioFile
\*   "download_error" murf: the download of the audio file fails
\*   "no_audio"       edge-tts: Communicate.save raises after opening its file
\*   "mix_error"      the provider answers, the try block of the mixer raises
\*   "copy_error"     as "mix_error", and shutil.copy2 raises too
\* The batch executor and the phase calls explore Answers; a job run on its
\* own explores JobAnswers.
Answers(tts_engine) ==
    CASE tts_engine = "murf" -> {"ok", "http_error", "no_audio_url"}
      [] tts_engine = "elevenlabs" -> {"ok", "http_error"}
      [] OTHER -> {"ok", "no_audio"}

JobAnswers(tts_engine) ==
    Answers(tts_engine) \cup {"mix_error", "copy_error"}
        \cup (IF tts_engine = "murf" THEN {"download_error"} ELSE {})

\* The answer a provider that is down gives to every request.
DownAnswer(tts_engine) ==
    CASE tts_engine = "murf" -> "http_error"
      [] tts_engine = "elevenlabs" -> "http_error"
      [] OTHER -> "no_audio"

\* str(e) of the exception an answer raises in the adapter.
ErrorText(answer) ==
    CASE answer = "http_error" -> "HTTPStatusError"
      [] answer = "no_audio_url" -> "Murf returned no audioFile URL"
      [] answer = "download_error" -> "HTTPStatusError (download)"
      [] answer = "timeout" -> "ReadTimeout"
      [] answer = "copy_error" -> "OSError"
      [] OTHER -> "NoAudioReceived"

\* The two files of a job: the file at its output path and the temporary
\* voice-only file output_path.with_suffix(".voice.mp3").  A file is
\* "absent", "stale" (left by an earlier batch), "partial" (opened and not
\* completed), "voice" (the voice-only render) or "mixed".  A retry batch
\* finds the output files of the batch before it.
FileContents == {"absent", "stale", "partial", "voice", "mixed"}
FreshFiles == [out |-> "absent", tmp |-> "absent"]
StaleFiles == [out |-> "stale", tmp |-> "absent"]

\* The requests an adapter sends.
SynthesisRequest == "synthesis"
DownloadRequest == "download"

\* The outcome of an adapter call: its result, the files it leaves and the
\* requests it sent.
Outcome(result, fs, sent) == [result |-> result, fs |-> fs, sent |-> sent]

\* The dict an adapter returns after writing the output file.
AdapterResult(path, voice_id, model, skip_bgm) ==
    [file_path |-> path, file_name |-> path, voice_id |-> voice_id,
     model |-> model, has_background_music |-> ~skip_bgm]

\* _mix_voice_with_music(voice_only_path, output_path): the files after the
\* call.  When the try block raises, the except clause copies the
\* voice-only file over the output file; an exception of the copy leaves
\* the function.
MixVoiceWithMusic(fs, answer) ==
    IF answer \in {"mix_error", "copy_error"}
    THEN IF answer = "copy_error" THEN [raised |-> TRUE, error |-> ErrorText(answer), value |-> fs]
         ELSE Returned([fs EXCEPT !.out = fs.tmp])
    ELSE Returned([fs EXCEPT !.out = "mixed"])

\* Lines 790-796 (and 701-708, 848-854): the voice bytes are written to the
\* output file, or to the temporary file that is then mixed and unlinked.
\* Returned(files), or raised with the files left behind.
WriteAndMix(fs, skip_bgm, answer) ==
    IF skip_bgm THEN Returned([fs EXCEPT !.out = "voice"])
    ELSE LET written == [fs EXCEPT !.tmp = "voice"]
             mix == MixVoiceWithMusic(written, answer)
         IN  IF mix.raised THEN mix
             ELSE Returned([mix.value EXCEPT !.tmp = "absent"])

\* Same as MurfTtsRun, sending the request again after an HTTP error.
MurfTtsRunRetrying(text, voice_id, locale, path, style, skip_bgm, bgm_style, answer, fs) ==
    IF answer = "http_error"
    THEN Outcome(Raised(ErrorText(answer)), fs, <<SynthesisRequest, SynthesisRequest>>)
    ELSE IF answer = "no_audio_url"
    THEN Outcome(Raised(ErrorText(answer)), fs, <<SynthesisRequest>>)
    ELSE IF answer = "download_error"
    THEN Outcome(Raised(ErrorText(answer)), fs, <<SynthesisRequest, DownloadRequest>>)
    ELSE LET w == WriteAndMix(fs, skip_bgm, answer)
         IN  Outcome(IF w.raised THEN Raised(w.error)
                     ELSE Returned(AdapterResult(path, voice_id, "murf-gen2", skip_bgm)),
                     w.value, <<SynthesisRequest, DownloadRequest>>)

\* AudioProducerAgent._generate_murf_tts with its effects.
MurfTtsRun(text, voice_id, locale, path, style, skip_bgm, bgm_style, answer, fs) ==
    IF answer \in {"http_error", "no_audio_url"}
    THEN Outcome(Raised(ErrorText(answer)), fs, <<SynthesisRequest>>)
    ELSE IF answer = "download_error"
    THEN Outcome(Raised(ErrorText(answer)), fs, <<SynthesisRequest, DownloadRequest>>)
    ELSE LET w == WriteAndMix(fs, skip_bgm, answer)
         IN  Outcome(IF w.raised THEN Raised(w.error)
                     ELSE Returned(AdapterResult(path, voice_id, "murf-gen2", skip_bgm)),
                     w.value, <<SynthesisRequest, DownloadRequest>>)

\* AudioProducerAgent._generate_elevenlabs with its effects.
ElevenlabsRun(text, voice_id, voice_settings, path, model_id, skip_bgm, bgm_style, answer, fs) ==
    IF answer = "http_error"
    THEN Outcome(Raised(ErrorText(answer)), fs, <<SynthesisRequest>>)
    ELSE LET w == WriteAndMix(fs, skip_bgm, answer)
         IN  Outcome(IF w.raised THEN Raised(w.error)
                     ELSE Returned(AdapterResult(path, voice_id, model_id, skip_bgm)),
                     w.value, <<SynthesisRequest>>)

\* AudioProducerAgent._generate_edge_tts with its effects.  Communicate.save
\* opens the file it is given and then streams the audio into it, so a
\* failed synthesis leaves that file.
EdgeTtsRun(text, voice, path, section_type, skip_bgm, bgm_style, answer, fs) ==
    IF answer = "no_audio"
    THEN Outcome(Raised(ErrorText(answer)),
                 IF skip_bgm THEN [fs EXCEPT !.out = "partial"]
                 ELSE [fs EXCEPT !.tmp = "partial"],
                 <<SynthesisRequest>>)
    ELSE LET w == WriteAndMix(fs, skip_bgm, answer)
         IN  Outcome(IF w.raised THEN Raised(w.error)
                     ELSE Returned(AdapterResult(path, voice, "edge-tts", skip_bgm)),
                     w.value, <<SynthesisRequest>>)

\* AudioProducerAgent._generate_murf_tts
GenerateMurfTts(text, voice_id, locale, path, style, skip_bgm, bgm_style, answer) ==
    MurfTtsRun(text, voice_id, locale, path, style, skip_bgm, bgm_style,
               answer, FreshFiles).result

\* AudioProducerAgent._generate_elevenlabs
GenerateElevenlabs(text, voice_id, voice_settings, path, model_id, skip_bgm, bgm_style, answer) ==
    ElevenlabsRun(text, voice_id, voice_settings, path, model_id, skip_bgm,
                  bgm_style, answer, FreshFiles).result

\* AudioProducerAgent._generate_edge_tts
GenerateEdgeTts(text, voice, path, section_type, skip_bgm, bgm_style, answer) ==
    EdgeTtsRun(text, voice, path, section_type, skip_bgm, bgm_style,
               answer, FreshFiles).result

\* Lines 1007-1035 of _tts_job: the adapter call of the resolved provider,
\* with its effects.  job["x"] on a missing key raises KeyError before any
\* request is sent.
CallAdapterRun(job, ctx, answer, fs) ==
    LET skip_bgm == Get(job, "skip_bgm", FALSE)
        bgm_style == Get(job, "bgm_style", "upbeat")
    IN  IF ctx.tts_engine = "murf" THEN
            IF {"text", "murf_voice_id", "murf_locale", "path", "murf_style"}
                   \subseteq DOMAIN job
            THEN MurfTtsRun(job.text, job.murf_voice_id, job.murf_locale, job.path,
                            job.murf_style, skip_bgm, bgm_style, answer, fs)
            ELSE Outcome(Raised("KeyError"), fs, << >>)
        ELSE IF ctx.tts_engine = "elevenlabs" THEN
            IF {"text", "path"} \subseteq DOMAIN job
            THEN ElevenlabsRun(job.text, Get(job, "el_voice_id", ctx.el_voice_id),
                               ctx.voice_settings, job.path, ctx.el_model_id,
                               skip_bgm, bgm_style, answer, fs)
            ELSE Outcome(Raised("KeyError"), fs, << >>)
        ELSE
            IF {"text", "path", "type"} \subseteq DOMAIN job
            THEN EdgeTtsRun(job.text, Get(job, "edge_voice", ctx.edge_voice),
                            job.path, job.type, skip_bgm, bgm_style, answer, fs)
            ELSE Outcome(Raised("KeyError"), fs, << >>)

\* Lines 1007-1035 of _tts_job: the result of the adapter call.
CallAdapter(job, ctx, answer) == CallAdapterRun(job, ctx, answer, FreshFiles).result

\* Lines 1036-1040 and 1070-1074: the fields copied from the job.
JobTags(job) ==
    [variant_id |-> job.variant_id,
     type |-> job.type,
     theme |-> Get(job, "theme", ""),
     voice_index |-> Get(job, "voice_index", 1),
     voice_label |-> Get(job, "voice_label", "Voice 1")]

\* Same as FailureArtifact, without the job's voice index.
FailureArtifactDefaultVoice(job, error) ==
    Update([JobTags(job) EXCEPT !.voice_index = 1], [error |-> error])

\* Lines 1067-1076: the failure record of a job.
FailureArtifact(job, error) == Update(JobTags(job), [error |-> error])

\* Same as TtsJob without the try/except: the adapter's exception leaves
\* the task.
TtsJobNoCatch(job, ctx, answer) ==
    LET result == CallAdapter(job, ctx, answer)
    IN  IF result.raised THEN result
        ELSE Returned(Update(result.value, JobTags(job)))

\* _run_tts_jobs._tts_job: Returned(artifact); the except clause turns every
\* exception of the adapter into a failure record.
TtsJob(job, ctx, answer) ==
    LET result == CallAdapter(job, ctx, answer)
    IN  IF result.raised THEN Returned(FailureArtifact(job, result.error))
        ELSE Returned(Update(result.value, JobTags(job)))

\* "error" in r
IsFailure(r) == "error" \in DOMAIN r
IsSuccess(r) == "error" \notin DOMAIN r

\* ------------------------------------------------------------------------
\* _tts_job called on its own
\* ------------------------------------------------------------------------

AllKeys == [MURF_API_KEY |-> KeyValid, ELEVENLABS_API_KEY |-> KeyValid]
QuietNet == [quota |-> QuotaUsableAnswer, validate |-> "listed", health |-> AllUp]

\* The engine context resolved when provider e is forced and every
\* credential is configured.
ContextOf(e) == ResolveEngineWith(VsFull, "Kenya", None, e, AllKeys, QuietNet).value

\* Jobs handed to _tts_job: the preview jobs and the final jobs of two
\* variants on the voice pool of provider e, and the same final jobs as a
\* caller that wants no music builds them.
SingleJobs(e) ==
    LET pool == ContextOf(e).voice_pool
        preview == BuildPreviewJobs(<<V1>>, pool)
        final == BuildFinalJobs(<<V1, V2>>, pool, (1 :> 2), "calm")
        js == preview \o final
    IN  { js[i] : i \in 1..Len(js) }
          \cup { [final[i] EXCEPT !.skip_bgm = TRUE] : i \in 1..Len(final) }

InitJob ==
    /\ cfg = AllKeys
    /\ \E e \in Providers :
          /\ net \in [quota : {QuotaUsableAnswer}, validate : {"listed"},
                      health : {AllUp}, answer : JobAnswers(e)]
          /\ req \in [job : SingleJobs(e), ctx : {ContextOf(e)}]
    /\ tpc = "call" /\ tret = EmptyDict
    /\ tfs \in {FreshFiles, StaleFiles}
    /\ PhaseIdle /\ BatchIdle /\ QuotaIdle /\ ResolveIdle /\ FnIdle

\* Lines 1003-1076: one execution of _tts_job.
JobCall ==
    /\ tpc = "call"
    /\ \E out \in {TtsJob(req.job, req.ctx, net.answer)} :
          /\ tret' = out
          /\ tpc' = IF out.raised THEN "raised" ELSE "returned"
    /\ tfs' = CallAdapterRun(req.job, req.ctx, net.answer, tfs).fs
    /\ UNCHANGED <<envVars, phaseVars, batchVars, quotaVars, resolveVars, fnVars>>

NextJob == JobCall

SpecJob == InitJob /\ [][NextJob]_vars

\* The job asks for background music.
MusicEnabled(job) == ~Get(job, "skip_bgm", FALSE)

\* The try block of the mixer raised during the job.
MixFailed == net.answer \in {"mix_error", "copy_error"}

\* C16: a job with music enabled whose mixing fails still completes as a
\* successful artifact, and the file at its output path is the voice-only
\* render.
C16_MixFailureKeepsVoice ==
    (tpc \in {"returned", "raised"} /\ MusicEnabled(req.job) /\ MixFailed) =>
        /\ tpc = "returned"
        /\ IsSuccess(tret.value)
        /\ tfs.out = "voice"

\* C17: after a job with music enabled, whatever failed, its temporary
\* voice-only file does not exist.
C17_TempFileRemoved ==
    (tpc \in {"returned", "raised"} /\ MusicEnabled(req.job)) => tfs.tmp = "absent"

\* C21: the has_background_music field of a successful artifact is true
\* exactly when the file at the output path has music mixed in; after a
\* failed mix that fell back to the voice-only file it is false.
C21_MusicFlagTellsMix ==
    (tpc = "returned" /\ IsSuccess(tret.value)) =>
        (tret.value.has_background_music <=> tfs.out = "mixed")

\* ------------------------------------------------------------------------
\* One batch execution: _run_tts_jobs
\* ------------------------------------------------------------------------

SemaphoreSlots == 5

MaxJobs == 6

\* Job lists handed to _run_tts_jobs: the first n preview jobs of three
\* variants, built on the voice pool of provider e.
BatchJobs(e, n) ==
    LET all == BuildPreviewJobs(<<V1, V2, V4>>, ContextOf(e).voice_pool)
    IN  SubSeq(all, 1, Min(n, Len(all)))

\* <<provider of the engine context, provider of the jobs' voice pool>>:
\* the last two hand the batch jobs that lack the provider's voice keys.
BatchPairs == { <<"murf", "murf">>, <<"elevenlabs", "elevenlabs">>,
                <<"edge-tts", "edge-tts">>, <<"murf", "edge-tts">>,
                <<"elevenlabs", "edge-tts">> }

InitBatch ==
    /\ cfg = AllKeys /\ net = QuietNet /\ req = NoReq
    /\ \E pair \in BatchPairs, n \in 0..MaxJobs :
          /\ bctx = ContextOf(pair[1])
          /\ bjobs = BatchJobs(pair[2], n)
    /\ bpc = "call" /\ jpc = << >> /\ sem = 0
    /\ bans = << >> /\ bres = << >> /\ bret = << >> /\ bsent = << >>
    /\ PhaseIdle /\ QuotaIdle /\ ResolveIdle /\ JobIdle /\ FnIdle

\* Lines 1078-1084: the semaphore is created and gather starts one _limited
\* task per job.
StartBatch ==
    /\ bpc = "call"
    /\ bpc' = "running"
    /\ sem' = SemaphoreSlots
    /\ jpc' = [i \in 1..Len(bjobs) |-> "waiting"]
    /\ bans' = [i \in 1..Len(bjobs) |-> "none"]
    /\ bres' = [i \in 1..Len(bjobs) |-> EmptyDict]
    /\ bsent' = [i \in 1..Len(bjobs) |-> << >>]
    /\ UNCHANGED <<bjobs, bctx, bret, envVars, phaseVars, quotaVars, resolveVars, jobVars, fnVars>>

\* asyncio.Semaphore._wake_up_next: the first waiter whose future is not
\* done gets the slot.  The tasks queue up in the order of the jobs, so the
\* first waiter is the queued task of the lowest index.
WakeUpNext(value, pcs) ==
    LET queued == { j \in DOMAIN pcs : pcs[j] = "queued" }
    IN  IF queued = {} THEN [value |-> value, pcs |-> pcs]
        ELSE LET first == CHOOSE j \in queued : \A k \in queued : j <= k
             IN  [value |-> value - 1, pcs |-> [pcs EXCEPT ![first] = "woken"]]

\* asyncio.Semaphore.release, at the end of `async with semaphore`.
Release(value, pcs) == WakeUpNext(value + 1, pcs)

\* asyncio.Semaphore.locked: no slot is free, or a task is in the queue of
\* waiters.
Locked(value, pcs) ==
    value = 0 \/ \E j \in DOMAIN pcs : pcs[j] \in {"queued", "woken"}

\* The requests the adapter call of a job sends when every answer is "ok";
\* empty when the call raises before its first request.
RequestsOf(job, ctx) == CallAdapterRun(job, ctx, "ok", FreshFiles).sent

\* Lines 1082 and 1003-1076: task i holds a slot and runs _tts_job up to
\* its first wait.  The adapter sends its synthesis request; a job on which
\* the adapter call raises before any request ends in the same turn, as a
\* failure record, and gives the slot back.
Entered(i, value, pcs) ==
    IF RequestsOf(bjobs[i], bctx) = << >>
    THEN LET out == TtsJob(bjobs[i], bctx, "ok")
             r == Release(value, [pcs EXCEPT ![i] = "done"])
         IN  [sem |-> r.value, jpc |-> r.pcs, bsent |-> bsent,
              bres |-> [bres EXCEPT ![i] = IF out.raised THEN EmptyDict ELSE out.value],
              bpc |-> IF out.raised THEN "raised" ELSE bpc]
    ELSE [sem |-> value, jpc |-> [pcs EXCEPT ![i] = "inflight"],
          bsent |-> [bsent EXCEPT ![i] = <<RequestsOf(bjobs[i], bctx)[1]>>],
          bres |-> bres, bpc |-> bpc]

\* Task i joins the queue of waiters.
Queued(i) ==
    [sem |-> sem, jpc |-> [jpc EXCEPT ![i] = "queued"], bsent |-> bsent,
     bres |-> bres, bpc |-> bpc]

\* Same as Acquire, without waiting for a free slot.
AcquireUnbounded(i) ==
    /\ bpc \in {"running", "raised"}
    /\ jpc[i] = "waiting"
    /\ \A j \in 1..(i - 1) : jpc[j] # "waiting"
    /\ \E s \in {Entered(i, sem - 1, jpc)} :
          /\ sem' = s.sem /\ jpc' = s.jpc /\ bsent' = s.bsent
          /\ bres' = s.bres /\ bpc' = s.bpc
    /\ UNCHANGED <<bjobs, bctx, bans, bret, envVars, phaseVars, quotaVars,
                   resolveVars, jobVars, fnVars>>

\* Lines 1081-1082: the first turn of task i, the tasks of gather running
\* in the order of the jobs.  Semaphore.acquire takes a slot without
\* yielding when the semaphore is not locked, and the task runs on into
\* _tts_job; otherwise the task joins the queue of waiters.
Acquire(i) ==
    /\ bpc \in {"running", "raised"}
    /\ jpc[i] = "waiting"
    /\ \A j \in 1..(i - 1) : jpc[j] # "waiting"
    /\ \E s \in {IF Locked(sem, jpc) THEN Queued(i) ELSE Entered(i, sem - 1, jpc)} :
          /\ sem' = s.sem /\ jpc' = s.jpc /\ bsent' = s.bsent
          /\ bres' = s.bres /\ bpc' = s.bpc
    /\ UNCHANGED <<bjobs, bctx, bans, bret, envVars, phaseVars, quotaVars,
                   resolveVars, jobVars, fnVars>>

\* Lines 1081-1082: task i, which a release handed its slot, runs again:
\* Semaphore.acquire returns (waking the next waiter when a slot is free)
\* and the task runs on into _tts_job.
Resume(i) ==
    /\ bpc \in {"running", "raised"}
    /\ jpc[i] = "woken"
    /\ \E w \in {IF sem > 0 THEN WakeUpNext(sem, jpc)
                 ELSE [value |-> sem, pcs |-> jpc]} :
       \E s \in {Entered(i, w.value, w.pcs)} :
          /\ sem' = s.sem /\ jpc' = s.jpc /\ bsent' = s.bsent
          /\ bres' = s.bres /\ bpc' = s.bpc
    /\ UNCHANGED <<bjobs, bctx, bans, bret, envVars, phaseVars, quotaVars,
                   resolveVars, jobVars, fnVars>>

\* Every task of the batch has had its first turn: the event loop runs the
\* first turns before it looks at the network.
AllStarted == \A j \in 1..Len(jpc) : jpc[j] # "waiting"

\* The answers the pending request of task i can get: any answer of the
\* provider to the first request, the answer already received afterwards.
PendingAnswers(i) ==
    IF bans[i] = "none" THEN Answers(bctx.tts_engine) ELSE {bans[i]}

\* Lines 760-787 of _generate_murf_tts: the provider answers the request of
\* task i and the adapter sends its next request, the download of the
\* audio file.
Download(i) ==
    /\ bpc \in {"running", "raised"}
    /\ jpc[i] = "inflight" /\ AllStarted
    /\ \E answer \in PendingAnswers(i) :
       \E run \in {CallAdapterRun(bjobs[i], bctx, answer, FreshFiles)} :
          /\ Len(run.sent) > Len(bsent[i])
          /\ bans' = [bans EXCEPT ![i] = answer]
          /\ bsent' = [bsent EXCEPT ![i] = Append(@, run.sent[Len(@) + 1])]
    /\ UNCHANGED <<bpc, bjobs, bctx, jpc, sem, bres, bret, envVars, phaseVars,
                   quotaVars, resolveVars, jobVars, fnVars>>

\* Same as EngineContextAfter, with the ElevenLabs adapter writing the style
\* it sends into the voice settings it was handed.
EngineContextAfterStyled(job, ctx, answer) ==
    IF ctx.tts_engine = "elevenlabs"
    THEN [ctx EXCEPT !.voice_settings = Update(@, [style |-> 0])]
    ELSE ctx

\* The engine context after _tts_job has run a job.  Lines 997-1001 read
\* its fields into locals; _tts_job and the adapters only read them (the
\* ElevenLabs payload at lines 827-838 is a new dict), and the jobs hold
\* copies of the pool entries.
EngineContextAfter(job, ctx, answer) == ctx

\* Same as Finish, without giving the slot back.
FinishNoRelease(i) ==
    /\ bpc \in {"running", "raised"}
    /\ jpc[i] = "inflight" /\ AllStarted
    /\ \E answer \in PendingAnswers(i) :
          LET out == TtsJob(bjobs[i], bctx, answer)
              run == CallAdapterRun(bjobs[i], bctx, answer, FreshFiles)
          IN  /\ Len(run.sent) <= Len(bsent[i])
              /\ bans' = [bans EXCEPT ![i] = answer]
              /\ bres' = [bres EXCEPT ![i] = IF out.raised THEN EmptyDict ELSE out.value]
              /\ bpc' = IF out.raised THEN "raised" ELSE bpc
              /\ bctx' = EngineContextAfter(bjobs[i], bctx, answer)
    /\ jpc' = [jpc EXCEPT ![i] = "done"]
    /\ UNCHANGED <<sem, bsent, bjobs, bret, envVars, phaseVars, quotaVars, resolveVars,
                   jobVars, fnVars>>

\* Lines 1082 and 1006-1076: the provider answers the last request of task
\* i, _tts_job returns (or raises) and the slot is released: handed to the
\* first waiter when there is one, free otherwise.  An exception of a task
\* makes gather raise to the caller; the other tasks keep running.
Finish(i) ==
    /\ bpc \in {"running", "raised"}
    /\ jpc[i] = "inflight" /\ AllStarted
    /\ \E answer \in PendingAnswers(i) :
          LET out == TtsJob(bjobs[i], bctx, answer)
              run == CallAdapterRun(bjobs[i], bctx, answer, FreshFiles)
          IN  /\ Len(run.sent) <= Len(bsent[i])
              /\ bans' = [bans EXCEPT ![i] = answer]
              /\ bres' = [bres EXCEPT ![i] = IF out.raised THEN EmptyDict ELSE out.value]
              /\ bpc' = IF out.raised THEN "raised" ELSE bpc
              /\ bctx' = EngineContextAfter(bjobs[i], bctx, answer)
    /\ \E r \in {Release(sem, [jpc EXCEPT ![i] = "done"])} :
          sem' = r.value /\ jpc' = r.pcs
    /\ UNCHANGED <<bsent, bjobs, bret, envVars, phaseVars, quotaVars, resolveVars,
                   jobVars, fnVars>>

\* Line 1084: every task has returned; gather returns their results in the
\* order of the jobs.
Gather ==
    /\ bpc = "running"
    /\ \A i \in 1..Len(bjobs) : jpc[i] = "done"
    /\ bret' = bres
    /\ bpc' = "returned"
    /\ UNCHANGED <<bjobs, bctx, jpc, sem, bans, bres, bsent, envVars, phaseVars, quotaVars,
                   resolveVars, jobVars, fnVars>>

NextBatch ==
    \/ StartBatch
    \/ \E i \in 1..Len(bjobs) : Acquire(i)
    \/ \E i \in 1..Len(bjobs) : Resume(i)
    \/ \E i \in 1..Len(bjobs) : Download(i)
    \/ \E i \in 1..Len(bjobs) : Finish(i)
    \/ Gather

SpecBatch == InitBatch /\ [][NextBatch]_vars

\* Tasks holding a slot of the semaphore.
InFlight == { i \in 1..Len(jpc) : jpc[i] \in {"woken", "inflight"} }

\* C3: at most 5 jobs are in flight at any moment of a batch.
C3_BoundedConcurrency == Cardinality(InFlight) <= 5

\* Five jobs in flight while a sixth waits for a slot.
C3_Witness ==
    /\ Cardinality(InFlight) = 5
    /\ \E i \in 1..Len(jpc) : jpc[i] = "queued"

\* C22: no step of a batch, whichever job takes it and however the job
\* ends, changes the engine context, its voice pool or the job list.
C22_ContextReadOnly ==
    [][bpc # "idle" => (bctx' = bctx /\ bjobs' = bjobs)]_vars

\* A returned batch in which one job failed and another succeeded, with
\* the engine context as it was resolved.
C22_Witness ==
    /\ bpc = "returned" /\ Len(bjobs) >= 2
    /\ bctx = ContextOf(bctx.tts_engine)
    /\ \E i, j \in 1..Len(bret) : IsFailure(bret[i]) /\ IsSuccess(bret[j])
    /\ \E i, j \in 1..Len(bans) : i # j /\ bans[i] # bans[j]

\* The answer makes the adapter call of the job fail: the provider did not
\* answer "ok", or the job lacks the voice fields of a Murf job.
AnswerFails(job, ctx, answer) ==
    \/ answer # "ok"
    \/ ctx.tts_engine = "murf" /\ "murf_voice_id" \notin DOMAIN job

FailingJobs == { i \in 1..Len(bjobs) : AnswerFails(bjobs[i], bctx, bans[i]) }

\* C2: no failure aborts the batch; every job ends as an artifact that is a
\* failure exactly when its own request failed, whatever happened to the
\* other jobs; with exactly one failing request the batch returns 1 failure
\* and N-1 successes.
C2_JobIsolation ==
    /\ bpc # "raised"
    /\ bpc \in {"running", "returned"} =>
          \A i \in 1..Len(bjobs) :
              jpc[i] = "done" =>
                  /\ IsFailure(bres[i]) <=> i \in FailingJobs
                  /\ bres[i].variant_id = bjobs[i].variant_id
                  /\ bres[i].voice_index = bjobs[i].voice_index
    /\ bpc = "returned" =>
          /\ Len(bret) = Len(bjobs)
          /\ Cardinality(FailingJobs) = 1 =>
                /\ Len(Filter(bret, IsFailure)) = 1
                /\ Len(Filter(bret, IsSuccess)) = Len(bjobs) - 1

\* A returned batch of at least five jobs in which exactly one job failed.
C2_Witness ==
    /\ bpc = "returned" /\ Len(bjobs) >= 5
    /\ Cardinality(FailingJobs) = 1
    /\ Len(Filter(bret, IsSuccess)) = Len(bjobs) - 1

\* ------------------------------------------------------------------------
\* The phase calls: run_hook_previews and run_final_audio
\* ------------------------------------------------------------------------

\* The number of synthesis requests among the requests a job sent.
SynthesisCount(sent) ==
    Cardinality({ k \in 1..Len(sent) : sent[k] = SynthesisRequest })

\* C20: in one batch attempt every job sends at most one synthesis request;
\* a job whose request got a non-success HTTP answer, or a Murf answer
\* without an audio URL, ends as a failure record with an error message,
\* having sent that one request and nothing more.
C20_NoAdapterRetry ==
    bpc \in {"running", "returned"} =>
        \A i \in 1..Len(bjobs) :
            /\ SynthesisCount(bsent[i]) <= 1
            /\ jpc[i] \in {"waiting", "queued", "woken"} => bsent[i] = << >>
            /\ jpc[i] = "inflight" =>
                  bsent[i] \in {<<SynthesisRequest>>, <<SynthesisRequest, DownloadRequest>>}
            /\ (jpc[i] = "done" /\ bans[i] \in {"http_error", "no_audio_url"}
                  /\ ~AnswerFails(bjobs[i], bctx, "ok")) =>
                   /\ IsFailure(bres[i])
                   /\ bres[i].error \in {"HTTPStatusError", "Murf returned no audioFile URL"}
                   /\ bsent[i] = <<SynthesisRequest>>

\* A returned Murf batch with a job failed by an HTTP error, a job failed by
\* an answer without audio URL and a job that succeeded.
C20_Witness ==
    /\ bpc = "returned" /\ bctx.tts_engine = "murf"
    /\ \E i, j, k \in 1..Len(bjobs) :
          /\ bans[i] = "http_error" /\ IsFailure(bret[i]) /\ bsent[i] = <<SynthesisRequest>>
          /\ bans[j] = "no_audio_url" /\ IsFailure(bret[j])
          /\ bans[k] = "ok" /\ IsSuccess(bret[k])
          /\ bsent[k] = <<SynthesisRequest, DownloadRequest>>

\* Same as FALLBACK_ORDER, without edge-tts.
FallbackOrderMurfOnly == <<"murf">>

\* Lines 1142 and 1277: fallback_order.
FALLBACK_ORDER == <<"murf", "edge-tts">>

\* The answers the requests of one batch can get from a provider: every
\* request succeeds when it is up, every request fails when it is down, and
\* each request succeeds or fails on its own otherwise.
BatchAnswers(tts_engine, n) ==
    CASE net.health[tts_engine] = "up" -> { [i \in 1..n |-> "ok"] }
      [] net.health[tts_engine] = "down" -> { [i \in 1..n |-> DownAnswer(tts_engine)] }
      [] OTHER -> [1..n -> {"ok", DownAnswer(tts_engine)}]

\* _run_tts_jobs as the caller sees it: the artifacts of the jobs, in the
\* order of the jobs, each the result of _tts_job on the answer its request
\* got; Raised when a task raises.
RunTtsJobs(js, ctx, answers) ==
    LET outs == [i \in 1..Len(js) |-> TtsJob(js[i], ctx, answers[i])]
    IN  IF \E i \in 1..Len(js) : outs[i].raised
        THEN Raised("task exception")
        ELSE Returned([i \in 1..Len(js) |-> outs[i].value])

\* Lines 1108-1132 and 1242-1264: the job list of the call.
BuildJobs(r, voice_pool) ==
    IF r.op = "preview" THEN BuildPreviewJobs(r.scripts, voice_pool)
    ELSE BuildFinalJobs(r.scripts, voice_pool, r.voice_choices, r.bgm_style)

\* Same as BuildRetryJobs, on the voice pool of the first resolution.
BuildRetryJobsStalePool(r, voice_pool) ==
    BuildJobs(r, ResolveEngine(r.voice_selection, r.country, r.language,
                               r.tts_engine_override).value.voice_pool)

\* Lines 1158-1178 and 1291-1311: the job list of a retry.
BuildRetryJobs(r, voice_pool) ==
    IF r.op = "preview" THEN BuildPreviewRetryJobs(r.scripts, voice_pool)
    ELSE BuildFinalJobs(r.scripts, voice_pool, r.voice_choices, r.bgm_style)

\* One entry of the log of executed batches.
BatchLog(ctx, js, rs, is_retry) ==
    [tts_engine |-> ctx.tts_engine, retry |-> is_retry, n_jobs |-> Len(js),
     n_ok |-> Len(Filter(rs, IsSuccess)), n_failed |-> Len(Filter(rs, IsFailure))]

PhaseRequests ==
    { [op |-> o[1], voice_choices |-> o[2], bgm_style |-> o[3], scripts |-> sc,
       voice_selection |-> vs, country |-> "Kenya", language |-> None,
       tts_engine_override |-> ov] :
        o \in { <<"preview", EmptyDict, "upbeat">>, <<"final", EmptyDict, "upbeat">>,
                <<"final", (1 :> 2) @@ (2 :> 0) @@ (4 :> 7), "calm">> },
        sc \in { << >>, <<V1>>, <<V3, V4>>, <<V2, V5>> },
        vs \in {VsFull, VsNoSelected},
        ov \in {None, "murf", "elevenlabs", "edge-tts"} }

InitPhase ==
    /\ cfg \in [MURF_API_KEY : MurfKeys, ELEVENLABS_API_KEY : {KeyNone, KeyValid}]
    /\ net \in [quota : {QuotaUsableAnswer, QuotaTimeout}, validate : {"listed"},
                health : [Providers -> {"up", "down", "flaky"}]]
    /\ req \in PhaseRequests
    /\ pc = "call" /\ engine_ctx = EmptyDict /\ jobs = << >> /\ results = << >>
    /\ successful = << >> /\ failed = << >> /\ fb = 0 /\ batches = << >>
    /\ ret = EmptyDict
    /\ BatchIdle /\ QuotaIdle /\ ResolveIdle /\ JobIdle /\ FnIdle

\* Lines 1103-1132 (1230-1264): the engine is resolved and the jobs are
\* built.  An exception of _resolve_engine leaves the call.
PhaseStart ==
    /\ pc = "call"
    /\ \E r \in {ResolveEngine(req.voice_selection, req.country, req.language,
                               req.tts_engine_override)} :
          IF r.raised
          THEN /\ pc' = "raised"
               /\ ret' = r
               /\ UNCHANGED <<engine_ctx, jobs>>
          ELSE /\ pc' = "built"
               /\ engine_ctx' = r.value
               /\ jobs' = BuildJobs(req, r.value.voice_pool)
               /\ UNCHANGED ret
    /\ UNCHANGED <<results, successful, failed, fb, batches,
                   envVars, batchVars, quotaVars, resolveVars, jobVars, fnVars>>

\* Same as FallbackNeeded, retrying whenever some job failed.
FallbackNeededAnyFailure(ok, bad) == Len(bad) > 0

\* Lines 1141 and 1276: every job of the batch failed.
FallbackNeeded(ok, bad) == Len(ok) = 0 /\ Len(bad) > 0

\* Lines 1135-1141 (1270-1276): the initial batch is executed and its
\* results are split.
InitialBatch ==
    /\ pc = "built"
    /\ \E answers \in BatchAnswers(engine_ctx.tts_engine, Len(jobs)) :
       \E out \in {RunTtsJobs(jobs, engine_ctx, answers)} :
          IF out.raised
          THEN /\ pc' = "raised"
               /\ ret' = out
               /\ UNCHANGED <<results, successful, failed, fb, batches>>
          ELSE /\ results' = out.value
               /\ successful' = Filter(out.value, IsSuccess)
               /\ failed' = Filter(out.value, IsFailure)
               /\ batches' = Append(batches, BatchLog(engine_ctx, jobs, out.value, FALSE))
               /\ IF FallbackNeeded(successful', failed')
                  THEN pc' = "fallback" /\ fb' = 1
                  ELSE pc' = "finish" /\ fb' = 0
               /\ UNCHANGED ret
    /\ UNCHANGED <<engine_ctx, jobs, envVars, batchVars, quotaVars, resolveVars, jobVars, fnVars>>

\* Same as SkipFallback, without skipping the provider that just failed.
SkipFallbackCredentialsOnly(fb_engine, tts_engine) ==
    fb_engine = "murf" /\ ~Truthy(cfg.MURF_API_KEY)

\* Lines 1144-1147 (1278-1281): the loop skips the provider that just
\* failed, and Murf when no Murf key is configured.
SkipFallback(fb_engine, tts_engine) ==
    \/ fb_engine = tts_engine
    \/ fb_engine = "murf" /\ ~Truthy(cfg.MURF_API_KEY)

\* One iteration of the loop that is skipped.
FallbackSkip ==
    /\ pc = "fallback"
    /\ fb <= Len(FALLBACK_ORDER)
    /\ SkipFallback(FALLBACK_ORDER[fb], engine_ctx.tts_engine)
    /\ fb' = fb + 1
    /\ UNCHANGED <<pc, engine_ctx, jobs, results, successful, failed, batches, ret,
                   envVars, batchVars, quotaVars, resolveVars, jobVars, fnVars>>

\* Lines 1183-1184 (1315-1316): the loop goes on to the next provider unless
\* the retry produced a success.
LoopGoesOn(ok) == ~(Len(ok) > 0)

\* Lines 1148-1178 (1282-1311): one iteration of the loop that retries: the
\* engine is re-resolved with the fallback provider forced and the jobs are
\* rebuilt on its voice pool.  The results of the failed batch stay until
\* the retry has run.
FallbackRetry ==
    /\ pc = "fallback"
    /\ fb <= Len(FALLBACK_ORDER)
    /\ ~SkipFallback(FALLBACK_ORDER[fb], engine_ctx.tts_engine)
    /\ \E r \in {ResolveEngine(req.voice_selection, req.country, req.language,
                               FALLBACK_ORDER[fb])} :
          IF r.raised
          THEN /\ pc' = "raised"
               /\ ret' = r
               /\ UNCHANGED <<engine_ctx, jobs>>
          ELSE /\ engine_ctx' = r.value
               /\ jobs' = BuildRetryJobs(req, r.value.voice_pool)
               /\ pc' = "retry"
               /\ UNCHANGED ret
    /\ UNCHANGED <<results, successful, failed, fb, batches,
                   envVars, batchVars, quotaVars, resolveVars, jobVars, fnVars>>

\* Lines 1180-1184 (1312-1316): the retry batch runs, and the loop ends on
\* its first success.
RetryBatch ==
    /\ pc = "retry"
    /\ \E answers \in BatchAnswers(engine_ctx.tts_engine, Len(jobs)) :
       \E out \in {RunTtsJobs(jobs, engine_ctx, answers)} :
          IF out.raised
          THEN /\ pc' = "raised"
               /\ ret' = out
               /\ UNCHANGED <<results, successful, failed, fb, batches>>
          ELSE /\ results' = out.value
               /\ successful' = Filter(out.value, IsSuccess)
               /\ failed' = Filter(out.value, IsFailure)
               /\ batches' = Append(batches, BatchLog(engine_ctx, jobs, out.value, TRUE))
               /\ IF LoopGoesOn(successful')
                  THEN pc' = "fallback" /\ fb' = fb + 1
                  ELSE pc' = "finish" /\ fb' = fb
               /\ UNCHANGED ret
    /\ UNCHANGED <<engine_ctx, jobs, envVars, batchVars, quotaVars, resolveVars,
                   jobVars, fnVars>>

\* The loop has visited every entry of fallback_order.
FallbackEnd ==
    /\ pc = "fallback"
    /\ fb > Len(FALLBACK_ORDER)
    /\ pc' = "finish"
    /\ UNCHANGED <<engine_ctx, jobs, results, successful, failed, fb, batches, ret,
                   envVars, batchVars, quotaVars, resolveVars, jobVars, fnVars>>

\* Lines 1190-1205: the result of run_hook_previews.
PreviewResult ==
    [tts_engine |-> engine_ctx.tts_engine,
     voice_pool |-> [i \in 1..Len(engine_ctx.voice_pool) |->
                        [voice_index |-> i,
                         voice_label |-> engine_ctx.voice_pool[i].voice_label]],
     hook_previews |-> successful,
     failed_previews |-> failed,
     summary |-> [total_generated |-> Len(successful),
                  total_failed |-> Len(failed),
                  variants_count |-> Len(req.scripts)]]

\* Lines 1318-1354: the result of run_final_audio.
FinalResult ==
    LET tts_engine == engine_ctx.tts_engine
    IN  [tts_engine |-> tts_engine,
         voice_used |->
            [voice_id |-> IF tts_engine = "murf" THEN engine_ctx.murf_voice_id
                          ELSE IF tts_engine = "elevenlabs" THEN engine_ctx.el_voice_id
                          ELSE engine_ctx.edge_voice,
             name |-> IF tts_engine = "murf"
                      THEN <<engine_ctx.murf_voice_id, engine_ctx.murf_locale>>
                      ELSE IF tts_engine = "elevenlabs" THEN <<engine_ctx.voice_name>>
                      ELSE <<engine_ctx.edge_voice>>,
             settings |-> engine_ctx.voice_settings],
         audio_files |-> successful,
         failed_files |-> failed,
         summary |-> [total_generated |-> Len(successful),
                      total_failed |-> Len(failed),
                      variants_count |-> Len(req.scripts),
                      has_background_music |-> TRUE,
                      bgm_style |-> req.bgm_style,
                      output_quality |-> "stereo 320kbps 44.1kHz"]]

\* The call returns its result.
PhaseReturn ==
    /\ pc = "finish"
    /\ ret' = Returned(IF req.op = "preview" THEN PreviewResult ELSE FinalResult)
    /\ pc' = "returned"
    /\ UNCHANGED <<engine_ctx, jobs, results, successful, failed, fb, batches,
                   envVars, batchVars, quotaVars, resolveVars, jobVars, fnVars>>

NextPhase ==
    \/ PhaseStart
    \/ InitialBatch
    \/ FallbackSkip
    \/ FallbackRetry
    \/ RetryBatch
    \/ FallbackEnd
    \/ PhaseReturn

Spec == InitPhase /\ [][NextPhase]_vars

\* The scheduler: batch executions and phase calls.
InitSched == InitBatch \/ InitPhase
NextSched == NextBatch \/ NextPhase
SpecSched == InitSched /\ [][NextSched]_vars

\* ------------------------------------------------------------------------
\* Properties of the scheduler
\* ------------------------------------------------------------------------

\* The variants of the request, and the jobs of the current batch that
\* belong to variant k.
Variants == 1..Len(req.scripts)
JobsOfVariant(k) ==
    SelectSeq(jobs, LAMBDA j : j.variant_id = Get(req.scripts[k], "variant_id", 0))

\* The jobs of the last batch built by the call are in `jobs`.
JobsBuilt == pc \in {"built", "retry", "fallback", "finish", "returned"}

\* The first 200 characters of a text.
First200(t) ==
    IF t.lead >= 200 THEN Text(t.words, 200, 0)
    ELSE Text(t.words, t.lead, IF t.lead + t.rest > 200 THEN 200 - t.lead ELSE t.rest)

\* The text a preview speaks for a variant: the hook, or the first 200
\* characters of full_script when the hook is missing or blank.
PreviewTextOf(script) ==
    IF "hook" \in DOMAIN script /\ script.hook # NoneText /\ script.hook.rest > 0
    THEN script.hook
    ELSE IF "full_script" \in DOMAIN script /\ script.full_script # NoneText
         THEN First200(script.full_script)
         ELSE Text("", 0, 0)

\* C12: in preview mode every variant with hook text gets exactly one
\* hook_preview job per pool voice, with voice_index 1, 2 and 3 and the
\* voice of that pool entry; the text of the job is the hook, or the first
\* 200 characters of full_script when the hook is missing or blank; a
\* variant with neither yields no job.
C12_PreviewExpansion ==
    (req.op = "preview" /\ JobsBuilt) =>
        /\ \A k \in Variants :
              LET text == PreviewTextOf(req.scripts[k])
                  mine == JobsOfVariant(k)
              IN  IF text.rest = 0 THEN mine = << >>
                  ELSE /\ Len(mine) = 3
                       /\ \A v \in 1..3 :
                             /\ mine[v].voice_index = v
                             /\ mine[v].type = "hook_preview"
                             /\ mine[v].text = text
                             /\ mine[v].voice_label = engine_ctx.voice_pool[v].voice_label
                             /\ mine[v][VoiceKey(engine_ctx.tts_engine)]
                                   = engine_ctx.voice_pool[v][VoiceKey(engine_ctx.tts_engine)]
        /\ \A i \in 1..Len(jobs) :
              \E k \in Variants : jobs[i].variant_id = Get(req.scripts[k], "variant_id", 0)

\* A preview whose first variant has a blank hook and a full_script that
\* is cut to 200 characters, and whose second variant has no text in its
\* first 200 characters.
C12_Witness ==
    /\ req.op = "preview" /\ pc = "built" /\ req.scripts = <<V2, V5>>
    /\ Len(jobs) = 3
    /\ jobs[3].text = Text(V2.full_script.words, 2, 198)
    /\ jobs[3].voice_index = 3

\* C13: in preview mode no job of the initial batch or of a retry batch
\* asks for background music, and every preview artifact reports that it
\* has no background music.
C13_PreviewWithoutMusic ==
    (req.op = "preview" /\ JobsBuilt) =>
        /\ \A i \in 1..Len(jobs) : Get(jobs[i], "skip_bgm", FALSE)
        /\ \A i \in 1..Len(successful) : ~successful[i].has_background_music
        /\ pc = "returned" =>
              \A i \in 1..Len(ret.value.hook_previews) :
                  ~ret.value.hook_previews[i].has_background_music

\* The sections of a final render: <<script field, section type>>.
FinalSections == { <<"full_script", "main">>, <<"fallback_1", "fallback1">>,
                   <<"fallback_2", "fallback2">>, <<"polite_closure", "closure">> }

\* The script has text in the field.
HasText(script, field) ==
    /\ field \in DOMAIN script
    /\ script[field] # NoneText
    /\ script[field].rest > 0

\* The caller's 1-based voice choice for a variant (1 when absent), clamped
\* into 1..n.
ClampedChoice(variant_id, n) ==
    LET choice == IF variant_id \in DOMAIN req.voice_choices
                  THEN req.voice_choices[variant_id] ELSE 1
    IN  IF choice < 1 THEN 1 ELSE IF choice > n THEN n ELSE choice

\* C14: in final mode every variant gets exactly one job per non-blank
\* section among main, fallback1, fallback2 and closure and none for a
\* blank one; all jobs of the variant carry the caller's voice choice
\* clamped into 1..pool size (1 when the variant has no choice) and the
\* voice of that pool entry, and every job has music enabled with the
\* caller's style.
C14_FinalExpansion ==
    (req.op = "final" /\ JobsBuilt) =>
        \A k \in Variants :
           LET script == req.scripts[k]
               mine == JobsOfVariant(k)
               vi == ClampedChoice(Get(script, "variant_id", 0), Len(engine_ctx.voice_pool))
           IN  /\ \A i \in 1..Len(mine) :
                     /\ \E fs \in FinalSections : mine[i].type = fs[2]
                     /\ mine[i].voice_index = vi
                     /\ mine[i].voice_label = engine_ctx.voice_pool[vi].voice_label
                     /\ mine[i][VoiceKey(engine_ctx.tts_engine)]
                           = engine_ctx.voice_pool[vi][VoiceKey(engine_ctx.tts_engine)]
                     /\ "skip_bgm" \in DOMAIN mine[i] /\ ~mine[i].skip_bgm
                     /\ mine[i].bgm_style = req.bgm_style
               /\ \A fs \in FinalSections :
                     LET hits == SelectSeq(mine, LAMBDA j : j.type = fs[2])
                     IN  IF HasText(script, fs[1])
                         THEN Len(hits) = 1 /\ hits[1].text = script[fs[1]]
                         ELSE hits = << >>

\* The end-to-end scenario: voice_choices {1: 2} gives three jobs (main,
\* fallback1, closure), all with voice index 2.
C14_Witness ==
    /\ req.op = "final" /\ pc = "built" /\ req.scripts = <<V1>>
    /\ 1 \in DOMAIN req.voice_choices
    /\ Len(jobs) = 3
    /\ \A i \in 1..3 : jobs[i].voice_index = 2 /\ jobs[i].bgm_style = "calm"
    /\ [i \in 1..3 |-> jobs[i].type] = <<"main", "fallback1", "closure">>

\* The provider that synthesized an artifact, from its model field.
ProviderOfModel(model) ==
    CASE model = "murf-gen2" -> "murf"
      [] model = "edge-tts" -> "edge-tts"
      [] OTHER -> "elevenlabs"

\* C15: every artifact of a phase result was synthesized by the provider
\* the result reports, with the voice found at its voice_index in the pool
\* resolved for that provider; the result holds the artifacts of the last
\* batch only, so it never mixes the artifacts of two providers.
C15_OneProviderPerResult ==
    pc = "returned" =>
        LET eng == ret.value.tts_engine
            pool == engine_ctx.voice_pool
            last == batches[Len(batches)]
        IN  /\ engine_ctx.tts_engine = eng
            /\ last.tts_engine = eng
            /\ Len(successful) = last.n_ok /\ Len(failed) = last.n_failed
            /\ results = RunTtsJobs(jobs, engine_ctx,
                                    [i \in 1..Len(jobs) |->
                                        IF IsFailure(results[i])
                                        THEN DownAnswer(eng) ELSE "ok"]).value
            /\ \A i \in 1..Len(successful) :
                  LET a == successful[i]
                  IN  /\ ProviderOfModel(a.model) = eng
                      /\ a.voice_index \in 1..Len(pool)
                      /\ a.voice_id = pool[a.voice_index][VoiceKey(eng)]
                      /\ a.voice_label = pool[a.voice_index].voice_label
            /\ \A i \in 1..Len(failed) :
                  failed[i].voice_label = pool[failed[i].voice_index].voice_label
            /\ req.op = "preview" =>
                  /\ ret.value.hook_previews = successful
                  /\ ret.value.failed_previews = failed
                  /\ \A v \in 1..Len(pool) :
                        ret.value.voice_pool[v].voice_label = pool[v].voice_label
            /\ req.op = "final" =>
                  /\ ret.value.audio_files = successful
                  /\ ret.value.failed_files = failed

\* A call that returned the artifacts of a retry on edge-tts after Murf
\* failed the whole initial batch.
C15_Witness ==
    /\ pc = "returned" /\ Len(batches) = 2
    /\ batches[1].tts_engine = "murf" /\ ret.value.tts_engine = "edge-tts"
    /\ Len(successful) > 0 /\ Len(failed) > 0
    /\ \A i \in 1..Len(successful) : successful[i].model = "edge-tts"

\* The artifact carries the variant id, section type and voice index of
\* the job.
TaggedAs(artifact, job) ==
    /\ artifact.variant_id = job.variant_id
    /\ artifact.type = job.type
    /\ artifact.voice_index = job.voice_index

\* C1: a batch execution returns exactly one artifact per job, a success or
\* a failure record carrying the job's variant id, section type and voice
\* index; in a phase result the successful and the failed list together
\* have as many entries as the last executed batch had jobs, and
\* total_generated + total_failed is that number.
C1_OneArtifactPerJob ==
    /\ bpc # "raised"
    /\ bpc = "returned" =>
          /\ Len(bret) = Len(bjobs)
          /\ \A i \in 1..Len(bjobs) :
                /\ TaggedAs(bret[i], bjobs[i])
                /\ IsFailure(bret[i]) <=> bans[i] # "ok" \/ AnswerFails(bjobs[i], bctx, bans[i])
    /\ pc \in {"fallback", "finish", "returned"} =>
          /\ Len(results) = Len(jobs)
          /\ Len(successful) + Len(failed) = Len(jobs)
          /\ \A i \in 1..Len(jobs) : TaggedAs(results[i], jobs[i])
    /\ pc = "returned" =>
          /\ ret.value.summary.total_generated + ret.value.summary.total_failed = Len(jobs)
          /\ ret.value.summary.total_generated = Len(successful)
          /\ ret.value.summary.total_failed = Len(failed)
          /\ req.op = "preview" =>
                Len(ret.value.hook_previews) + Len(ret.value.failed_previews) = Len(jobs)
          /\ req.op = "final" =>
                Len(ret.value.audio_files) + Len(ret.value.failed_files) = Len(jobs)

\* A batch of six jobs returned with a failure record for a job whose
\* voice index is not 1 and a success record for another job.
C1_Witness ==
    /\ bpc = "returned" /\ Len(bjobs) >= 6
    /\ \E i, j \in 1..Len(bjobs) :
          /\ IsFailure(bret[i]) /\ bjobs[i].voice_index = 3 /\ bret[i].voice_index = 3
          /\ IsSuccess(bret[j])

\* The engine context of the first resolution of the call.
InitialContext ==
    ResolveEngine(req.voice_selection, req.country, req.language, req.tts_engine_override)

\* C4: a retry batch is run only after a batch that produced at least one
\* artifact, all of them failures; a call whose initial batch had a success
\* or no job returns that batch's results under the initially resolved
\* provider, with no re-resolution.
C4_RetryOnlyAfterTotalFailure ==
    /\ \A k \in 2..Len(batches) :
          /\ batches[k].retry
          /\ batches[k - 1].n_jobs > 0
          /\ batches[k - 1].n_ok = 0
          /\ batches[k - 1].n_failed = batches[k - 1].n_jobs
    /\ (pc = "returned" /\ (batches[1].n_ok > 0 \/ batches[1].n_jobs = 0)) =>
          /\ Len(batches) = 1
          /\ engine_ctx = InitialContext.value
          /\ ret.value.tts_engine = InitialContext.value.tts_engine
          /\ Len(successful) = batches[1].n_ok
          /\ Len(failed) = batches[1].n_failed

\* A call returned after a single batch in which some jobs failed and some
\* succeeded.
C4_Witness ==
    /\ pc = "returned" /\ Len(batches) = 1
    /\ batches[1].n_ok > 0 /\ batches[1].n_failed > 0

\* C5: the whole-batch fallback retries once.  At most one retry batch
\* follows the initial batch, for every initial provider and every
\* credential configuration, and a retry batch that fails completely is the
\* last batch of the call.
C5_AtMostOneRetry ==
    /\ Len(batches) <= 2
    /\ \A k \in 2..Len(batches) :
          (batches[k].retry /\ batches[k].n_ok = 0) => k = Len(batches)

\* Provider p has the credentials it needs.
Configured(p) ==
    CASE p = "murf" -> cfg.MURF_API_KEY.len > 0
      [] p = "elevenlabs" -> KeyUsable(cfg.ELEVENLABS_API_KEY)
      [] OTHER -> TRUE

\* The initial batch of the call was not empty and failed completely.
InitialBatchFailed ==
    Len(batches) >= 1 /\ batches[1].n_jobs > 0 /\ batches[1].n_ok = 0

\* C6 as stated: when the initial provider fails the whole batch and some
\* other configured provider would succeed, the result has successes and
\* names such a provider.
C6_Original_AnyConfiguredProvider ==
    (/\ pc = "returned"
     /\ InitialBatchFailed
     /\ net.health[batches[1].tts_engine] = "down"
     /\ \E p \in Providers \ {batches[1].tts_engine} :
           Configured(p) /\ net.health[p] = "up") =>
        /\ Len(successful) > 0
        /\ ret.value.tts_engine # batches[1].tts_engine
        /\ Configured(ret.value.tts_engine)
        /\ net.health[ret.value.tts_engine] = "up"

\* Position of a provider in the fallback order (0 for ElevenLabs).
OrderIndex(p) == IF p = "murf" THEN 1 ELSE IF p = "edge-tts" THEN 2 ELSE 0

\* The providers the loop can retry on after the initial provider failed.
FallbackTargets(initial) ==
    { p \in {"murf", "edge-tts"} : p # initial /\ Configured(p) }

\* C6, amended: when the initial provider fails the whole batch and a
\* provider of the fallback order (Murf with a key, edge-tts) other than
\* the initial one would succeed, the result has successes and names a
\* fallback target: that provider, or an earlier one of the order whose
\* retry produced a success.
C6_FallbackSuccess ==
    (/\ pc = "returned"
     /\ InitialBatchFailed
     /\ \E p \in FallbackTargets(batches[1].tts_engine) : net.health[p] = "up") =>
        /\ Len(successful) > 0
        /\ ret.value.summary.total_generated > 0
        /\ ret.value.tts_engine \in FallbackTargets(batches[1].tts_engine)
        /\ ret.value.tts_engine = batches[Len(batches)].tts_engine
        /\ \E p \in FallbackTargets(batches[1].tts_engine) :
              /\ net.health[p] = "up"
              /\ OrderIndex(ret.value.tts_engine) <= OrderIndex(p)

\* Murf failed every request of the initial batch and the retry on
\* edge-tts succeeded.
C6_Witness ==
    /\ pc = "returned" /\ InitialBatchFailed
    /\ batches[1].tts_engine = "murf" /\ net.health["murf"] = "down"
    /\ net.health["edge-tts"] = "up"
    /\ ret.value.tts_engine = "edge-tts"
    /\ ret.value.summary.total_generated > 0

\* C7: a retry batch never runs on the provider whose batch just failed,
\* nor on a provider whose credentials are missing.
C7_RetryOnOtherProvider ==
    \A k \in 2..Len(batches) :
        /\ batches[k].tts_engine # batches[k - 1].tts_engine
        /\ Configured(batches[k].tts_engine)
        /\ batches[k].tts_engine = "murf" => Truthy(cfg.MURF_API_KEY)

\* ElevenLabs failed the initial batch, no Murf key is configured, and the
\* retry ran on edge-tts.
C7_Witness ==
    /\ Len(batches) = 2
    /\ batches[1].tts_engine = "elevenlabs"
    /\ cfg.MURF_API_KEY.len = 0
    /\ batches[2].tts_engine = "edge-tts"

\* C18: no call of run_hook_previews or run_final_audio raises an exception
\* to its caller; every call that ends has returned a result.
C18_NoExceptionLeavesCall == pc # "raised"

\* ------------------------------------------------------------------------
\* Termination of the scheduler
\* ------------------------------------------------------------------------

\* The calls whose termination is followed step by step: batches of up to
\* one job more than the semaphore has slots, and phase calls on at most
\* one script variant.
InitTerm ==
    \/ InitBatch /\ Len(bjobs) <= SemaphoreSlots + 1
    \/ InitPhase /\ Len(req.scripts) <= 1

\* The event loop runs a task that is ready and every provider call
\* eventually returns or fails (lines 1078-1084); the phase call goes on
\* from one statement to the next.
FairSched == WF_vars(NextBatch) /\ WF_vars(NextPhase)

SpecSchedFair == InitTerm /\ [][NextSched]_vars /\ FairSched

\* The steps of task i: it gets a slot only by taking a free one in its
\* first turn or by being handed the slot another task gives back, it
\* sends its request only while holding a slot, and it ends only by giving
\* the slot back, with its artifact recorded as a success or as a failure.
JobStep(i) ==
    \/ jpc'[i] = jpc[i]
    \/ /\ jpc[i] = "waiting" /\ jpc'[i] = "inflight"
       /\ sem > 0 /\ sem' = sem - 1
    \/ /\ jpc[i] = "waiting" /\ jpc'[i] = "queued"
       /\ sem = 0 /\ sem' = sem
    \/ /\ jpc[i] = "queued" /\ jpc'[i] = "woken"
       /\ sem' = sem
       /\ \E j \in DOMAIN jpc : jpc[j] = "inflight" /\ jpc'[j] = "done"
    \/ /\ jpc[i] = "woken" /\ jpc'[i] = "inflight"
       /\ sem' = sem
    \/ /\ jpc[i] \in {"waiting", "woken", "inflight"} /\ jpc'[i] = "done"
       /\ \/ sem' = sem + 1 /\ jpc[i] # "waiting"
          \/ sem' = sem /\ jpc[i] = "waiting" /\ sem > 0
          \/ sem' = sem /\ \E j \in DOMAIN jpc : jpc[j] = "queued" /\ jpc'[j] = "woken"
       /\ IsSuccess(bres'[i]) \/ IsFailure(bres'[i])

\* C19: every job of a batch eventually acquires a slot and gives it back
\* when it completes, as a success or as a failure; the batch eventually
\* returns, with every job done and all 5 slots free; a phase call that has
\* built its initial batch eventually returns, after at most one retry per
\* fallback provider.
C19_BatchAndCallTerminate ==
    /\ [][\A i \in DOMAIN jpc : JobStep(i)]_vars
    /\ [](bpc \in {"running", "returned"} =>
              sem = SemaphoreSlots - Cardinality(InFlight))
    /\ (bpc = "call") ~> (bpc = "returned")
    /\ [](bpc = "returned" =>
              /\ sem = SemaphoreSlots
              /\ \A i \in 1..Len(bjobs) : jpc[i] = "done")
    /\ (pc = "built") ~> (pc = "returned")
    /\ [](Len(batches) <= 1 + Len(FALLBACK_ORDER))

\* A batch of more than 5 jobs has returned, one job as a failure and
\* another as a success, and all 5 slots are free.
C19_Witness ==
    /\ bpc = "returned" /\ Len(bjobs) > SemaphoreSlots
    /\ sem = SemaphoreSlots
    /\ \E i, j \in 1..Len(bret) : IsFailure(bret[i]) /\ IsSuccess(bret[j])

\* ------------------------------------------------------------------------
\* Background music: _generate_upbeat_music, _generate_calm_music,
\* _generate_corporate_music
\* ------------------------------------------------------------------------

\* random.random() is drawn from the module's generator, which the program
\* never seeds: every draw is a choice of the environment.  A draw r is
\* kept as the level floor(r * RandomLevels).
RandomLevels == 16

\* BGM_GENERATORS.
MusicStyles == {"upbeat", "calm", "corporate"}

\* num_samples = int(sample_rate * duration_ms / 1000)
NumSamples(duration_ms, sample_rate) == (sample_rate * duration_ms) \div 1000

\* beat_samples = int(sample_rate * 60 / bpm), bpm = 110 for upbeat.
UpbeatBpm == 110
BeatSamples(sample_rate, bpm) == (sample_rate * 60) \div bpm

\* Line 479: eighth_pos = (i % (beat_samples // 2)) / (beat_samples // 2),
\* and line 480: eighth_pos < 0.03.
HiHatHit(i, sample_rate) ==
    LET half == BeatSamples(sample_rate, UpbeatBpm) \div 2
    IN  (i % half) * 100 < 3 * half

\* The number of samples before sample i that drew a random number.
HitsBefore(i, sample_rate) ==
    Cardinality({ j \in 0..(i - 1) : HiHatHit(j, sample_rate) })

\* The number of calls of random.random() in one call of the generator.
NumDraws(style, duration_ms, sample_rate) ==
    IF style = "upbeat"
    THEN HitsBefore(NumSamples(duration_ms, sample_rate), sample_rate)
    ELSE 0

\* Lines 480-482: the hi-hat layer of sample i, in units of 1/RandomLevels
\* of its envelope: random.random() * 2 - 1, on the draws of the call in
\* their order.  master_env is 0 at i = 0, which silences the sample
\* whatever was drawn.
HiHatNoise(i, sample_rate, draws) ==
    IF HiHatHit(i, sample_rate) /\ i > 0
    THEN 2 * draws[HitsBefore(i, sample_rate) + 1] - RandomLevels
    ELSE 0

\* One stereo frame: the layers computed from i, duration_ms and
\* sample_rate alone, and the hi-hat layer.
Frame(style, i, duration_ms, sample_rate, hihat) ==
    [tone |-> <<style, i, duration_ms, sample_rate>>, hihat |-> hihat]

\* The generator of a style: the frames written to the WAV buffer, given
\* what its calls of random.random() returned.
GenerateMusic(style, duration_ms, sample_rate, draws) ==
    [k \in 1..NumSamples(duration_ms, sample_rate) |->
        Frame(style, k - 1, duration_ms, sample_rate,
              IF style = "upbeat" THEN HiHatNoise(k - 1, sample_rate, draws) ELSE 0)]

\* Durations and sample rates at which every audible hi-hat hit weighs
\* more than a hundred sample units.
MusicDurations == {0, 250, 1000}
SampleRates == {50, 100}

\* The levels the draws are taken from.
DrawLevels == {0, 7, RandomLevels - 1}

InitMusic ==
    /\ cfg = AllKeys /\ net = QuietNet /\ req = NoReq
    /\ fin \in [style : MusicStyles, duration_ms : MusicDurations,
                sample_rate : SampleRates]
    /\ rng = << >>
    /\ fpc = "call" /\ fout = << >>
    /\ PhaseIdle /\ BatchIdle /\ QuotaIdle /\ ResolveIdle /\ JobIdle

\* One call of the generator; rng keeps what random.random() returned.
MusicCall ==
    /\ fpc = "call"
    /\ \E draws \in [1..NumDraws(fin.style, fin.duration_ms, fin.sample_rate)
                        -> DrawLevels] :
          /\ fout' = <<GenerateMusic(fin.style, fin.duration_ms, fin.sample_rate, draws)>>
          /\ rng' = rng \o draws
    /\ fpc' = "again"
    /\ UNCHANGED <<fin, envVars, phaseVars, batchVars, quotaVars, resolveVars, jobVars>>

\* A second call with the same arguments.
MusicCallAgain ==
    /\ fpc = "again"
    /\ \E draws \in [1..NumDraws(fin.style, fin.duration_ms, fin.sample_rate)
                        -> DrawLevels] :
          /\ fout' = Append(fout, GenerateMusic(fin.style, fin.duration_ms,
                                                fin.sample_rate, draws))
          /\ rng' = rng \o draws
    /\ fpc' = "returned"
    /\ UNCHANGED <<fin, envVars, phaseVars, batchVars, quotaVars, resolveVars, jobVars>>

NextMusic == MusicCall \/ MusicCallAgain

SpecMusic == InitMusic /\ [][NextMusic]_vars

\* C23: for every style, two calls of the generator with the same duration
\* and sample rate return identical buffers.
C23_MusicDeterministic ==
    fpc = "returned" => fout[1] = fout[2]

\* ------------------------------------------------------------------------
\* The text normalizer: _clean_text_for_tts
\* ------------------------------------------------------------------------

\* A text is a str: a sequence of characters, each given by its code point
\* (ord).  ord of the ASCII characters, the double quote, the backslash and
\* the backquote left out:
Ord ==
    ("\t" :> 9) @@ ("\n" :> 10) @@ ("\r" :> 13) @@ (" " :> 32) @@
    ("!" :> 33) @@ ("#" :> 35) @@ ("$" :> 36) @@ ("%" :> 37) @@
    ("&" :> 38) @@ ("'" :> 39) @@ ("(" :> 40) @@ (")" :> 41) @@
    ("*" :> 42) @@ ("+" :> 43) @@ ("," :> 44) @@ ("-" :> 45) @@
    ("." :> 46) @@ ("/" :> 47) @@ ("0" :> 48) @@ ("1" :> 49) @@
    ("2" :> 50) @@ ("3" :> 51) @@ ("4" :> 52) @@ ("5" :> 53) @@
    ("6" :> 54) @@ ("7" :> 55) @@ ("8" :> 56) @@ ("9" :> 57) @@
    (":" :> 58) @@ (";" :> 59) @@ ("<" :> 60) @@ ("=" :> 61) @@
    (">" :> 62) @@ ("?" :> 63) @@ ("@" :> 64) @@ ("A" :> 65) @@
    ("B" :> 66) @@ ("C" :> 67) @@ ("D" :> 68) @@ ("E" :> 69) @@
    ("F" :> 70) @@ ("G" :> 71) @@ ("H" :> 72) @@ ("I" :> 73) @@
    ("J" :> 74) @@ ("K" :> 75) @@ ("L" :> 76) @@ ("M" :> 77) @@
    ("N" :> 78) @@ ("O" :> 79) @@ ("P" :> 80) @@ ("Q" :> 81) @@
    ("R" :> 82) @@ ("S" :> 83) @@ ("T" :> 84) @@ ("U" :> 85) @@
    ("V" :> 86) @@ ("W" :> 87) @@ ("X" :> 88) @@ ("Y" :> 89) @@
    ("Z" :> 90) @@ ("[" :> 91) @@ ("]" :> 93) @@ ("^" :> 94) @@
    ("_" :> 95) @@ ("a" :> 97) @@ ("b" :> 98) @@ ("c" :> 99) @@
    ("d" :> 100) @@ ("e" :> 101) @@ ("f" :> 102) @@ ("g" :> 103) @@
    ("h" :> 104) @@ ("i" :> 105) @@ ("j" :> 106) @@ ("k" :> 107) @@
    ("l" :> 108) @@ ("m" :> 109) @@ ("n" :> 110) @@ ("o" :> 111) @@
    ("p" :> 112) @@ ("q" :> 113) @@ ("r" :> 114) @@ ("s" :> 115) @@
    ("t" :> 116) @@ ("u" :> 117) @@ ("v" :> 118) @@ ("w" :> 119) @@
    ("x" :> 120) @@ ("y" :> 121) @@ ("z" :> 122) @@ ("{" :> 123) @@
    ("|" :> 124) @@ ("}" :> 125) @@ ("~" :> 126)

\* The str of a literal.
Chars(cs) == [i \in 1..Len(cs) |-> Ord[cs[i]]]

\* [A-Z], [a-z] and [a-zA-Z] of the re module: the ASCII letters only.
IsUpper(c) == c \in 65..90
IsLower(c) == c \in 97..122
IsAlpha(c) == IsUpper(c) \/ IsLower(c)

\* \s of the re module on a str pattern, and the characters str.strip()
\* removes: every character with str.isspace().
UNICODE_WHITESPACE ==
    { 9, 10, 11, 12, 13, 28, 29, 30, 31, 32, 133, 160, 5760, 8192, 8193,
      8194, 8195, 8196, 8197, 8198, 8199, 8200, 8201, 8202, 8232, 8233,
      8239, 8287, 12288 }
IsSpace(c) == c \in UNICODE_WHITESPACE

\* \w of the re module on a str pattern, above ASCII: every character with
\* str.isalnum(), as ranges of code points (Unicode 14.0, Python 3.11).
UNICODE_WORD_RANGES ==
    { <<170, 170>>, <<178, 179>>, <<181, 181>>, <<185, 186>>, <<188, 190>>,
      <<192, 214>>, <<216, 246>>, <<248, 705>>, <<710, 721>>, <<736, 740>>,
      <<748, 748>>, <<750, 750>>, <<880, 884>>, <<886, 887>>, <<890, 893>>,
      <<895, 895>>, <<902, 902>>, <<904, 906>>, <<908, 908>>, <<910, 929>>,
      <<931, 1013>>, <<1015, 1153>>, <<1162, 1327>>, <<1329, 1366>>,
      <<1369, 1369>>, <<1376, 1416>>, <<1488, 1514>>, <<1519, 1522>>,
      <<1568, 1610>>, <<1632, 1641>>, <<1646, 1647>>, <<1649, 1747>>,
      <<1749, 1749>>, <<1765, 1766>>, <<1774, 1788>>, <<1791, 1791>>,
      <<1808, 1808>>, <<1810, 1839>>, <<1869, 1957>>, <<1969, 1969>>,
      <<1984, 2026>>, <<2036, 2037>>, <<2042, 2042>>, <<2048, 2069>>,
      <<2074, 2074>>, <<2084, 2084>>, <<2088, 2088>>, <<2112, 2136>>,
      <<2144, 2154>>, <<2160, 2183>>, <<2185, 2190>>, <<2208, 2249>>,
      <<2308, 2361>>, <<2365, 2365>>, <<2384, 2384>>, <<2392, 2401>>,
      <<2406, 2415>>, <<2417, 2432>>, <<2437, 2444>>, <<2447, 2448>>,
      <<2451, 2472>>, <<2474, 2480>>, <<2482, 2482>>, <<2486, 2489>>,
      <<2493, 2493>>, <<2510, 2510>>, <<2524, 2525>>, <<2527, 2529>>,
      <<2534, 2545>>, <<2548, 2553>>, <<2556, 2556>>, <<2565, 2570>>,
      <<2575, 2576>>, <<2579, 2600>>, <<2602, 2608>>, <<2610, 2611>>,
      <<2613, 2614>>, <<2616, 2617>>, <<2649, 2652>>, <<2654, 2654>>,
      <<2662, 2671>>, <<2674, 2676>>, <<2693, 2701>>, <<2703, 2705>>,
      <<2707, 2728>>, <<2730, 2736>>, <<2738, 2739>>, <<2741, 2745>>,
      <<2749, 2749>>, <<2768, 2768>>, <<2784, 2785>>, <<2790, 2799>>,
      <<2809, 2809>>, <<2821, 2828>>, <<2831, 2832>>, <<2835, 2856>>,
      <<2858, 2864>>, <<2866, 2867>>, <<2869, 2873>>, <<2877, 2877>>,
      <<2908, 2909>>, <<2911, 2913>>, <<2918, 2927>>, <<2929, 2935>>,
      <<2947, 2947>>, <<2949, 2954>>, <<2958, 2960>>, <<2962, 2965>>,
      <<2969, 2970>>, <<2972, 2972>>, <<2974, 2975>>, <<2979, 2980>>,
      <<2984, 2986>>, <<2990, 3001>>, <<3024, 3024>>, <<3046, 3058>>,
      <<3077, 3084>>, <<3086, 3088>>, <<3090, 3112>>, <<3114, 3129>>,
      <<3133, 3133>>, <<3160, 3162>>, <<3165, 3165>>, <<3168, 3169>>,
      <<3174, 3183>>, <<3192, 3198>>, <<3200, 3200>>, <<3205, 3212>>,
      <<3214, 3216>>, <<3218, 3240>>, <<3242, 3251>>, <<3253, 3257>>,
      <<3261, 3261>>, <<3293, 3294>>, <<3296, 3297>>, <<3302, 3311>>,
      <<3313, 3314>>, <<3332, 3340>>, <<3342, 3344>>, <<3346, 3386>>,
      <<3389, 3389>>, <<3406, 3406>>, <<3412, 3414>>, <<3416, 3425>>,
      <<3430, 3448>>, <<3450, 3455>>, <<3461, 3478>>, <<3482, 3505>>,
      <<3507, 3515>>, <<3517, 3517>>, <<3520, 3526>>, <<3558, 3567>>,
      <<3585, 3632>>, <<3634, 3635>>, <<3648, 3654>>, <<3664, 3673>>,
      <<3713, 3714>>, <<3716, 3716>>, <<3718, 3722>>, <<3724, 3747>>,
      <<3749, 3749>>, <<3751, 3760>>, <<3762, 3763>>, <<3773, 3773>>,
      <<3776, 3780>>, <<3782, 3782>>, <<3792, 3801>>, <<3804, 3807>>,
      <<3840, 3840>>, <<3872, 3891>>, <<3904, 3911>>, <<3913, 3948>>,
      <<3976, 3980>>, <<4096, 4138>>, <<4159, 4169>>, <<4176, 4181>>,
      <<4186, 4189>>, <<4193, 4193>>, <<4197, 4198>>, <<4206, 4208>>,
      <<4213, 4225>>, <<4238, 4238>>, <<4240, 4249>>, <<4256, 4293>>,
      <<4295, 4295>>, <<4301, 4301>>, <<4304, 4346>>, <<4348, 4680>>,
      <<4682, 4685>>, <<4688, 4694>>, <<4696, 4696>>, <<4698, 4701>>,
      <<4704, 4744>>, <<4746, 4749>>, <<4752, 4784>>, <<4786, 4789>>,
      <<4792, 4798>>, <<4800, 4800>>, <<4802, 4805>>, <<4808, 4822>>,
      <<4824, 4880>>, <<4882, 4885>>, <<4888, 4954>>, <<4969, 4988>>,
      <<4992, 5007>>, <<5024, 5109>>, <<5112, 5117>>, <<5121, 5740>>,
      <<5743, 5759>>, <<5761, 5786>>, <<5792, 5866>>, <<5870, 5880>>,
      <<5888, 5905>>, <<5919, 5937>>, <<5952, 5969>>, <<5984, 5996>>,
      <<5998, 6000>>, <<6016, 6067>>, <<6103, 6103>>, <<6108, 6108>>,
      <<6112, 6121>>, <<6128, 6137>>, <<6160, 6169>>, <<6176, 6264>>,
      <<6272, 6276>>, <<6279, 6312>>, <<6314, 6314>>, <<6320, 6389>>,
      <<6400, 6430>>, <<6470, 6509>>, <<6512, 6516>>, <<6528, 6571>>,
      <<6576, 6601>>, <<6608, 6618>>, <<6656, 6678>>, <<6688, 6740>>,
      <<6784, 6793>>, <<6800, 6809>>, <<6823, 6823>>, <<6917, 6963>>,
      <<6981, 6988>>, <<6992, 7001>>, <<7043, 7072>>, <<7086, 7141>>,
      <<7168, 7203>>, <<7232, 7241>>, <<7245, 7293>>, <<7296, 7304>>,
      <<7312, 7354>>, <<7357, 7359>>, <<7401, 7404>>, <<7406, 7411>>,
      <<7413, 7414>>, <<7418, 7418>>, <<7424, 7615>>, <<7680, 7957>>,
      <<7960, 7965>>, <<7968, 8005>>, <<8008, 8013>>, <<8016, 8023>>,
      <<8025, 8025>>, <<8027, 8027>>, <<8029, 8029>>, <<8031, 8061>>,
      <<8064, 8116>>, <<8118, 8124>>, <<8126, 8126>>, <<8130, 8132>>,
      <<8134, 8140>>, <<8144, 8147>>, <<8150, 8155>>, <<8160, 8172>>,
      <<8178, 8180>>, <<8182, 8188>>, <<8304, 8305>>, <<8308, 8313>>,
      <<8319, 8329>>, <<8336, 8348>>, <<8450, 8450>>, <<8455, 8455>>,
      <<8458, 8467>>, <<8469, 8469>>, <<8473, 8477>>, <<8484, 8484>>,
      <<8486, 8486>>, <<8488, 8488>>, <<8490, 8493>>, <<8495, 8505>>,
      <<8508, 8511>>, <<8517, 8521>>, <<8526, 8526>>, <<8528, 8585>>,
      <<9312, 9371>>, <<9450, 9471>>, <<10102, 10131>>, <<11264, 11492>>,
      <<11499, 11502>>, <<11506, 11507>>, <<11517, 11517>>,
      <<11520, 11557>>, <<11559, 11559>>, <<11565, 11565>>,
      <<11568, 11623>>, <<11631, 11631>>, <<11648, 11670>>,
      <<11680, 11686>>, <<11688, 11694>>, <<11696, 11702>>,
      <<11704, 11710>>, <<11712, 11718>>, <<11720, 11726>>,
      <<11728, 11734>>, <<11736, 11742>>, <<11823, 11823>>,
      <<12293, 12295>>, <<12321, 12329>>, <<12337, 12341>>,
      <<12344, 12348>>, <<12353, 12438>>, <<12445, 12447>>,
      <<12449, 12538>>, <<12540, 12543>>, <<12549, 12591>>,
      <<12593, 12686>>, <<12690, 12693>>, <<12704, 12735>>,
      <<12784, 12799>>, <<12832, 12841>>, <<12872, 12879>>,
      <<12881, 12895>>, <<12928, 12937>>, <<12977, 12991>>,
      <<13312, 19903>>, <<19968, 42124>>, <<42192, 42237>>,
      <<42240, 42508>>, <<42512, 42539>>, <<42560, 42606>>,
      <<42623, 42653>>, <<42656, 42735>>, <<42775, 42783>>,
      <<42786, 42888>>, <<42891, 42954>>, <<42960, 42961>>,
      <<42963, 42963>>, <<42965, 42969>>, <<42994, 43009>>,
      <<43011, 43013>>, <<43015, 43018>>, <<43020, 43042>>,
      <<43056, 43061>>, <<43072, 43123>>, <<43138, 43187>>,
      <<43216, 43225>>, <<43250, 43255>>, <<43259, 43259>>,
      <<43261, 43262>>, <<43264, 43301>>, <<43312, 43334>>,
      <<43360, 43388>>, <<43396, 43442>>, <<43471, 43481>>,
      <<43488, 43492>>, <<43494, 43518>>, <<43520, 43560>>,
      <<43584, 43586>>, <<43588, 43595>>, <<43600, 43609>>,
      <<43616, 43638>>, <<43642, 43642>>, <<43646, 43695>>,
      <<43697, 43697>>, <<43701, 43702>>, <<43705, 43709>>,
      <<43712, 43712>>, <<43714, 43714>>, <<43739, 43741>>,
      <<43744, 43754>>, <<43762, 43764>>, <<43777, 43782>>,
      <<43785, 43790>>, <<43793, 43798>>, <<43808, 43814>>,
      <<43816, 43822>>, <<43824, 43866>>, <<43868, 43881>>,
      <<43888, 44002>>, <<44016, 44025>>, <<44032, 55203>>,
      <<55216, 55238>>, <<55243, 55291>>, <<63744, 64109>>,
      <<64112, 64217>>, <<64256, 64262>>, <<64275, 64279>>,
      <<64285, 64285>>, <<64287, 64296>>, <<64298, 64310>>,
      <<64312, 64316>>, <<64318, 64318>>, <<64320, 64321>>,
      <<64323, 64324>>, <<64326, 64433>>, <<64467, 64829>>,
      <<64848, 64911>>, <<64914, 64967>>, <<65008, 65019>>,
      <<65136, 65140>>, <<65142, 65276>>, <<65296, 65305>>,
      <<65313, 65338>>, <<65345, 65370>>, <<65382, 65470>>,
      <<65474, 65479>>, <<65482, 65487>>, <<65490, 65495>>,
      <<65498, 65500>>, <<65536, 65547>>, <<65549, 65574>>,
      <<65576, 65594>>, <<65596, 65597>>, <<65599, 65613>>,
      <<65616, 65629>>, <<65664, 65786>>, <<65799, 65843>>,
      <<65856, 65912>>, <<65930, 65931>>, <<66176, 66204>>,
      <<66208, 66256>>, <<66273, 66299>>, <<66304, 66339>>,
      <<66349, 66378>>, <<66384, 66421>>, <<66432, 66461>>,
      <<66464, 66499>>, <<66504, 66511>>, <<66513, 66517>>,
      <<66560, 66717>>, <<66720, 66729>>, <<66736, 66771>>,
      <<66776, 66811>>, <<66816, 66855>>, <<66864, 66915>>,
      <<66928, 66938>>, <<66940, 66954>>, <<66956, 66962>>,
      <<66964, 66965>>, <<66967, 66977>>, <<66979, 66993>>,
      <<66995, 67001>>, <<67003, 67004>>, <<67072, 67382>>,
      <<67392, 67413>>, <<67424, 67431>>, <<67456, 67461>>,
      <<67463, 67504>>, <<67506, 67514>>, <<67584, 67589>>,
      <<67592, 67592>>, <<67594, 67637>>, <<67639, 67640>>,
      <<67644, 67644>>, <<67647, 67669>>, <<67672, 67702>>,
      <<67705, 67742>>, <<67751, 67759>>, <<67808, 67826>>,
      <<67828, 67829>>, <<67835, 67867>>, <<67872, 67897>>,
      <<67968, 68023>>, <<68028, 68047>>, <<68050, 68096>>,
      <<68112, 68115>>, <<68117, 68119>>, <<68121, 68149>>,
      <<68160, 68168>>, <<68192, 68222>>, <<68224, 68255>>,
      <<68288, 68295>>, <<68297, 68324>>, <<68331, 68335>>,
      <<68352, 68405>>, <<68416, 68437>>, <<68440, 68466>>,
      <<68472, 68497>>, <<68521, 68527>>, <<68608, 68680>>,
      <<68736, 68786>>, <<68800, 68850>>, <<68858, 68899>>,
      <<68912, 68921>>, <<69216, 69246>>, <<69248, 69289>>,
      <<69296, 69297>>, <<69376, 69415>>, <<69424, 69445>>,
      <<69457, 69460>>, <<69488, 69505>>, <<69552, 69579>>,
      <<69600, 69622>>, <<69635, 69687>>, <<69714, 69743>>,
      <<69745, 69746>>, <<69749, 69749>>, <<69763, 69807>>,
      <<69840, 69864>>, <<69872, 69881>>, <<69891, 69926>>,
      <<69942, 69951>>, <<69956, 69956>>, <<69959, 69959>>,
      <<69968, 70002>>, <<70006, 70006>>, <<70019, 70066>>,
      <<70081, 70084>>, <<70096, 70106>>, <<70108, 70108>>,
      <<70113, 70132>>, <<70144, 70161>>, <<70163, 70187>>,
      <<70272, 70278>>, <<70280, 70280>>, <<70282, 70285>>,
      <<70287, 70301>>, <<70303, 70312>>, <<70320, 70366>>,
      <<70384, 70393>>, <<70405, 70412>>, <<70415, 70416>>,
      <<70419, 70440>>, <<70442, 70448>>, <<70450, 70451>>,
      <<70453, 70457>>, <<70461, 70461>>, <<70480, 70480>>,
      <<70493, 70497>>, <<70656, 70708>>, <<70727, 70730>>,
      <<70736, 70745>>, <<70751, 70753>>, <<70784, 70831>>,
      <<70852, 70853>>, <<70855, 70855>>, <<70864, 70873>>,
      <<71040, 71086>>, <<71128, 71131>>, <<71168, 71215>>,
      <<71236, 71236>>, <<71248, 71257>>, <<71296, 71338>>,
      <<71352, 71352>>, <<71360, 71369>>, <<71424, 71450>>,
      <<71472, 71483>>, <<71488, 71494>>, <<71680, 71723>>,
      <<71840, 71922>>, <<71935, 71942>>, <<71945, 71945>>,
      <<71948, 71955>>, <<71957, 71958>>, <<71960, 71983>>,
      <<71999, 71999>>, <<72001, 72001>>, <<72016, 72025>>,
      <<72096, 72103>>, <<72106, 72144>>, <<72161, 72161>>,
      <<72163, 72163>>, <<72192, 72192>>, <<72203, 72242>>,
      <<72250, 72250>>, <<72272, 72272>>, <<72284, 72329>>,
      <<72349, 72349>>, <<72368, 72440>>, <<72704, 72712>>,
      <<72714, 72750>>, <<72768, 72768>>, <<72784, 72812>>,
      <<72818, 72847>>, <<72960, 72966>>, <<72968, 72969>>,
      <<72971, 73008>>, <<73030, 73030>>, <<73040, 73049>>,
      <<73056, 73061>>, <<73063, 73064>>, <<73066, 73097>>,
      <<73112, 73112>>, <<73120, 73129>>, <<73440, 73458>>,
      <<73648, 73648>>, <<73664, 73684>>, <<73728, 74649>>,
      <<74752, 74862>>, <<74880, 75075>>, <<77712, 77808>>,
      <<77824, 78894>>, <<82944, 83526>>, <<92160, 92728>>,
      <<92736, 92766>>, <<92768, 92777>>, <<92784, 92862>>,
      <<92864, 92873>>, <<92880, 92909>>, <<92928, 92975>>,
      <<92992, 92995>>, <<93008, 93017>>, <<93019, 93025>>,
      <<93027, 93047>>, <<93053, 93071>>, <<93760, 93846>>,
      <<93952, 94026>>, <<94032, 94032>>, <<94099, 94111>>,
      <<94176, 94177>>, <<94179, 94179>>, <<94208, 100343>>,
      <<100352, 101589>>, <<101632, 101640>>, <<110576, 110579>>,
      <<110581, 110587>>, <<110589, 110590>>, <<110592, 110882>>,
      <<110928, 110930>>, <<110948, 110951>>, <<110960, 111355>>,
      <<113664, 113770>>, <<113776, 113788>>, <<113792, 113800>>,
      <<113808, 113817>>, <<119520, 119539>>, <<119648, 119672>>,
      <<119808, 119892>>, <<119894, 119964>>, <<119966, 119967>>,
      <<119970, 119970>>, <<119973, 119974>>, <<119977, 119980>>,
      <<119982, 119993>>, <<119995, 119995>>, <<119997, 120003>>,
      <<120005, 120069>>, <<120071, 120074>>, <<120077, 120084>>,
      <<120086, 120092>>, <<120094, 120121>>, <<120123, 120126>>,
      <<120128, 120132>>, <<120134, 120134>>, <<120138, 120144>>,
      <<120146, 120485>>, <<120488, 120512>>, <<120514, 120538>>,
      <<120540, 120570>>, <<120572, 120596>>, <<120598, 120628>>,
      <<120630, 120654>>, <<120656, 120686>>, <<120688, 120712>>,
      <<120714, 120744>>, <<120746, 120770>>, <<120772, 120779>>,
      <<120782, 120831>>, <<122624, 122654>>, <<123136, 123180>>,
      <<123191, 123197>>, <<123200, 123209>>, <<123214, 123214>>,
      <<123536, 123565>>, <<123584, 123627>>, <<123632, 123641>>,
      <<124896, 124902>>, <<124904, 124907>>, <<124909, 124910>>,
      <<124912, 124926>>, <<124928, 125124>>, <<125127, 125135>>,
      <<125184, 125251>>, <<125259, 125259>>, <<125264, 125273>>,
      <<126065, 126123>>, <<126125, 126127>>, <<126129, 126132>>,
      <<126209, 126253>>, <<126255, 126269>>, <<126464, 126467>>,
      <<126469, 126495>>, <<126497, 126498>>, <<126500, 126500>>,
      <<126503, 126503>>, <<126505, 126514>>, <<126516, 126519>>,
      <<126521, 126521>>, <<126523, 126523>>, <<126530, 126530>>,
      <<126535, 126535>>, <<126537, 126537>>, <<126539, 126539>>,
      <<126541, 126543>>, <<126545, 126546>>, <<126548, 126548>>,
      <<126551, 126551>>, <<126553, 126553>>, <<126555, 126555>>,
      <<126557, 126557>>, <<126559, 126559>>, <<126561, 126562>>,
      <<126564, 126564>>, <<126567, 126570>>, <<126572, 126578>>,
      <<126580, 126583>>, <<126585, 126588>>, <<126590, 126590>>,
      <<126592, 126601>>, <<126603, 126619>>, <<126625, 126627>>,
      <<126629, 126633>>, <<126635, 126651>>, <<127232, 127244>>,
      <<130032, 130041>>, <<131072, 173791>>, <<173824, 177976>>,
      <<177984, 178205>>, <<178208, 183969>>, <<183984, 191456>>,
      <<194560, 195101>>, <<196608, 201546>> }

\* \w of the re module on a str pattern.
IsWord(c) ==
    IF c < 128 THEN IsAlpha(c) \/ c \in 48..57 \/ c = 95
    ELSE \E r \in UNICODE_WORD_RANGES : r[1] <= c /\ c <= r[2]

\* \b of the re module between s[i - 1] and s[i]: exactly one of the two
\* is a \w character, the ends of the text counting as none.
WordBoundary(s, i) ==
    (i >= 2 /\ i - 1 <= Len(s) /\ IsWord(s[i - 1])) # (i >= 1 /\ i <= Len(s) /\ IsWord(s[i]))

\* The characters a lower-case ASCII letter of a pattern matches under
\* re.IGNORECASE: the letter, its upper case, and the characters whose case
\* folding is the letter (dotted and dotless I, long s, Kelvin sign).
IgnoreCase(p) ==
    {p, p - 32} \cup (CASE p = 105 -> {304, 305}
                        [] p = 115 -> {383}
                        [] p = 107 -> {8490}
                        [] OTHER -> {})

\* str.capitalize() of a match of [A-Z]{2,}
Capitalize(s) ==
    [i \in 1..Len(s) |->
        IF i = 1 THEN (IF IsLower(s[i]) THEN s[i] - 32 ELSE s[i])
        ELSE IF IsUpper(s[i]) THEN s[i] + 32 ELSE s[i]]

\* The least index k in from..Len(s) with s[k] = c, or 0.
IndexOf(s, c, from) ==
    LET hits == { k \in from..Len(s) : s[k] = c }
    IN  IF hits = {} THEN 0 ELSE CHOOSE k \in hits : \A h \in hits : k <= h

\* s[i:] starts with the lower-case letters w of a pattern, ignoring case.
StartsWithNoCase(s, i, w) ==
    /\ i + Len(w) - 1 <= Len(s)
    /\ \A k \in 1..Len(w) : s[i + k - 1] \in IgnoreCase(w[k])

\* The first index at or after i that holds no whitespace.
RECURSIVE SkipSpaces(_, _)
SkipSpaces(s, i) ==
    IF i <= Len(s) /\ IsSpace(s[i]) THEN SkipSpaces(s, i + 1) ELSE i

\* A match of \[ pre \s* suf \] at i (\s* only when gap), ignoring case:
\* the index of the closing bracket, or 0.
MatchKnownTag(s, i, pre, gap, suf) ==
    IF ~(i <= Len(s) /\ s[i] = Ord["["] /\ StartsWithNoCase(s, i + 1, pre)) THEN 0
    ELSE LET k == IF gap THEN SkipSpaces(s, i + 1 + Len(pre)) ELSE i + 1 + Len(pre)
             e == k + Len(suf)
         IN  IF StartsWithNoCase(s, k, suf) /\ e <= Len(s) /\ s[e] = Ord["]"]
             THEN e ELSE 0

\* The end of the first of the patterns that matches at i, or 0.
MatchAnyKnownTag(s, i, pats) ==
    LET ends == { MatchKnownTag(s, i, p[1], p[2], p[3]) : p \in pats } \ {0}
    IN  IF ends = {} THEN 0 ELSE CHOOSE e \in ends : \A x \in ends : e <= x

RECURSIVE SubKnownTagFrom(_, _, _, _)
SubKnownTagFrom(s, i, pats, repl) ==
    IF i > Len(s) THEN << >>
    ELSE LET e == MatchAnyKnownTag(s, i, pats)
         IN  IF e > 0 THEN repl \o SubKnownTagFrom(s, e + 1, pats, repl)
             ELSE <<s[i]>> \o SubKnownTagFrom(s, i + 1, pats, repl)

\* re.sub(pattern, repl, text, flags=re.IGNORECASE) for a tag pattern.
SubKnownTag(s, pats, repl) == SubKnownTagFrom(s, 1, pats, repl)

\* Lines 120-125: the known tags become speech sounds, one pattern after
\* the other.
ReplaceKnownTags(text) ==
    LET t1 == SubKnownTag(text, { <<Chars(<<"l", "a", "u", "g", "h">>), FALSE, << >> >>,
                                 <<Chars(<<"l", "a", "u", "g", "h", "s">>), FALSE, << >> >> },
                          Chars(<<"h", "a", " ", "h", "a", ",", " ">>))
        t2 == SubKnownTag(t1, { <<Chars(<<"l", "i", "g", "h", "t", "l", "a", "u", "g", "h">>), FALSE, << >> >> },
                          Chars(<<"h", "e", "h", ",", " ">>))
        t3 == SubKnownTag(t2, { <<Chars(<<"s", "i", "g", "h">>), FALSE, << >> >> },
                          Chars(<<"h", "m", "m", ",", " ">>))
        t4 == SubKnownTag(t3, { <<Chars(<<"g", "a", "s", "p">>), FALSE, << >> >>,
                               <<Chars(<<"g", "a", "s", "p", "s">>), FALSE, << >> >> },
                          Chars(<<"o", "h", "!", " ">>))
        t5 == SubKnownTag(t4, { <<Chars(<<"s", "h", "o", "r", "t">>), TRUE, Chars(<<"p", "a", "u", "s", "e">>)>> },
                          Chars(<<",", " ">>))
    IN  SubKnownTag(t5, { <<Chars(<<"p", "a", "u", "s", "e">>), FALSE, << >> >> }, Chars(<<".", ".", ".", " ">>))

\* _ANY_BRACKET_TAG = \[[^\]]{1,30}\]
BracketTagMax == 30

\* A match of _ANY_BRACKET_TAG at i: the index of its closing bracket, or 0.
MatchBracketTag(s, i) ==
    IF s[i] # Ord["["] THEN 0
    ELSE LET j == IndexOf(s, Ord["]"], i + 1)
         IN  IF j > 0 /\ j - i - 1 >= 1 /\ j - i - 1 <= BracketTagMax THEN j ELSE 0

RECURSIVE StripBracketTagsFrom(_, _)
StripBracketTagsFrom(s, i) ==
    IF i > Len(s) THEN << >>
    ELSE LET e == MatchBracketTag(s, i)
         IN  IF e > 0 THEN StripBracketTagsFrom(s, e + 1)
             ELSE <<s[i]>> \o StripBracketTagsFrom(s, i + 1)

\* Line 128: _ANY_BRACKET_TAG.sub("", text)
StripBracketTags(text) == StripBracketTagsFrom(text, 1)

\* _ANY_XML_TAG = </?[a-zA-Z][^>]{0,80}>
XmlTagMax == 80

\* A match of _ANY_XML_TAG at i: the index of its closing >, or 0.
MatchXmlTag(s, i) ==
    IF s[i] # Ord["<"] THEN 0
    ELSE LET k == IF i + 1 <= Len(s) /\ s[i + 1] = Ord["/"] THEN i + 2 ELSE i + 1
         IN  IF ~(k <= Len(s) /\ IsAlpha(s[k])) THEN 0
             ELSE LET j == IndexOf(s, Ord[">"], k + 1)
                  IN  IF j > 0 /\ j - k - 1 <= XmlTagMax THEN j ELSE 0

RECURSIVE StripXmlTagsFrom(_, _)
StripXmlTagsFrom(s, i) ==
    IF i > Len(s) THEN << >>
    ELSE LET e == MatchXmlTag(s, i)
         IN  IF e > 0 THEN StripXmlTagsFrom(s, e + 1)
             ELSE <<s[i]>> \o StripXmlTagsFrom(s, i + 1)

\* Line 131: _ANY_XML_TAG.sub("", text)
StripXmlTags(text) == StripXmlTagsFrom(text, 1)

\* Line 134: text.replace("**", "").replace("*", "")
StripMarkdown(text) == SelectSeq(text, LAMBDA c : c # Ord["*"])

\* Line 138.
KNOWN_ACRONYMS ==
    { Chars(<<"I", "V", "R">>),
      Chars(<<"O", "B", "D">>),
      Chars(<<"C", "L", "I">>),
      Chars(<<"B", "N", "G">>),
      Chars(<<"D", "T", "M", "F">>),
      Chars(<<"U", "S", "S", "D">>),
      Chars(<<"S", "M", "S">>),
      Chars(<<"C", "T", "A">>),
      Chars(<<"A", "I">>),
      Chars(<<"E", "V", "A">>),
      Chars(<<"I", "N", "R">>) }

\* The last index of the run of [A-Z] that starts at i.
RECURSIVE UpperRunEnd(_, _)
UpperRunEnd(s, i) ==
    IF i + 1 <= Len(s) /\ IsUpper(s[i + 1]) THEN UpperRunEnd(s, i + 1) ELSE i

\* A match of \b[A-Z]{2,}\b at i: the index of its last letter, or 0.
MatchCapsWord(s, i) ==
    IF ~(IsUpper(s[i]) /\ WordBoundary(s, i)) THEN 0
    ELSE LET e == UpperRunEnd(s, i)
         IN  IF e - i + 1 >= 2 /\ WordBoundary(s, e + 1) THEN e ELSE 0

RECURSIVE FixCapsFrom(_, _)
FixCapsFrom(s, i) ==
    IF i > Len(s) THEN << >>
    ELSE LET e == MatchCapsWord(s, i)
         IN  IF e > 0
             THEN LET word == SubSeq(s, i, e)
                  IN  (IF word \in KNOWN_ACRONYMS THEN word ELSE Capitalize(word))
                          \o FixCapsFrom(s, e + 1)
             ELSE <<s[i]>> \o FixCapsFrom(s, i + 1)

\* Lines 139-142: re.sub(r"\b[A-Z]{2,}\b", _fix_caps, text)
FixCaps(text) == FixCapsFrom(text, 1)

\* _PRONUNCIATION_FIXES, in order.
PRONUNCIATION_FIXES ==
    << Chars(<<"I", "V", "R">>),
       Chars(<<"O", "B", "D">>),
       Chars(<<"C", "L", "I">>),
       Chars(<<"B", "N", "G">>),
       Chars(<<"D", "T", "M", "F">>),
       Chars(<<"U", "S", "S", "D">>),
       Chars(<<"S", "M", "S">>),
       Chars(<<"C", "T", "A">>) >>

\* "IVR" -> "I V R"
Spaced(word) ==
    [k \in 1..(2 * Len(word) - 1) |-> IF k % 2 = 1 THEN word[(k + 1) \div 2] ELSE Ord[" "]]

\* A match of \bword\b at i.
MatchWord(s, i, word) ==
    /\ i + Len(word) - 1 <= Len(s)
    /\ SubSeq(s, i, i + Len(word) - 1) = word
    /\ WordBoundary(s, i)
    /\ WordBoundary(s, i + Len(word))

RECURSIVE SpellWordFrom(_, _, _)
SpellWordFrom(s, i, word) ==
    IF i > Len(s) THEN << >>
    ELSE IF MatchWord(s, i, word)
         THEN Spaced(word) \o SpellWordFrom(s, i + Len(word), word)
         ELSE <<s[i]>> \o SpellWordFrom(s, i + 1, word)

RECURSIVE ApplyFixesFrom(_, _)
ApplyFixesFrom(s, n) ==
    IF n > Len(PRONUNCIATION_FIXES) THEN s
    ELSE ApplyFixesFrom(SpellWordFrom(s, 1, PRONUNCIATION_FIXES[n]), n + 1)

\* Lines 146-147: every pattern of _PRONUNCIATION_FIXES is applied.
ApplyPronunciationFixes(text) == ApplyFixesFrom(text, 1)

\* re.sub(r"\s{2,}", " ", text)
RECURSIVE CollapseSpacesFrom(_, _)
CollapseSpacesFrom(s, i) ==
    IF i > Len(s) THEN << >>
    ELSE IF IsSpace(s[i])
         THEN LET e == SkipSpaces(s, i)
              IN  (IF e - i >= 2 THEN <<Ord[" "]>> ELSE <<s[i]>>) \o CollapseSpacesFrom(s, e)
         ELSE <<s[i]>> \o CollapseSpacesFrom(s, i + 1)

\* The last index at or before i that holds no whitespace.
RECURSIVE SkipSpacesBack(_, _)
SkipSpacesBack(s, i) ==
    IF i >= 1 /\ IsSpace(s[i]) THEN SkipSpacesBack(s, i - 1) ELSE i

\* str.strip()
Strip(s) == SubSeq(s, SkipSpaces(s, 1), SkipSpacesBack(s, Len(s)))

\* re.sub(r"\s+([,.])", r"\1", text)
RECURSIVE TightenPunctuationFrom(_, _)
TightenPunctuationFrom(s, i) ==
    IF i > Len(s) THEN << >>
    ELSE IF IsSpace(s[i])
         THEN LET e == SkipSpaces(s, i)
              IN  IF e <= Len(s) /\ s[e] \in {Ord[","], Ord["."]}
                  THEN <<s[e]>> \o TightenPunctuationFrom(s, e + 1)
                  ELSE SubSeq(s, i, e - 1) \o TightenPunctuationFrom(s, e)
         ELSE <<s[i]>> \o TightenPunctuationFrom(s, i + 1)

\* The first index at or after i that holds none of , . and whitespace.
RECURSIVE SkipLeading(_, _)
SkipLeading(s, i) ==
    IF i <= Len(s) /\ (IsSpace(s[i]) \/ s[i] \in {Ord[","], Ord["."]})
    THEN SkipLeading(s, i + 1) ELSE i

\* Lines 150-152: the artifacts of the earlier steps are cleaned up.
CleanUpArtifacts(text) ==
    LET a == Strip(CollapseSpacesFrom(text, 1))
        b == TightenPunctuationFrom(a, 1)
    IN  SubSeq(b, SkipLeading(b, 1), Len(b))

\* _clean_text_for_tts(text, apply_pronunciation_hacks)
CleanTextForTts(text, apply_pronunciation_hacks) ==
    LET s5 == FixCaps(StripMarkdown(StripXmlTags(StripBracketTags(
                  ReplaceKnownTags(text)))))
        s6 == IF apply_pronunciation_hacks THEN ApplyPronunciationFixes(s5) ELSE s5
    IN  CleanUpArtifacts(s6)

\* The pieces the texts are made of: brackets and angle brackets on their
\* own, markdown markers, punctuation, whitespace, words, and whole tags.
\* Three of them lie outside ASCII: a tag written with the long s
\* (U+017F), the no-break space (U+00A0) and the letter e with acute
\* (U+00E9).
TagPieces ==
    { Chars(<<"[", "l", "a", "u", "g", "h", "s", "]">>),
      Chars(<<"[", "p", "a", "u", "s", "e", "]">>),
      Chars(<<"[", "h", "a", "p", "p", "y", "]">>),
      Chars(<<"<", "b", ">">>),
      Chars(<<"<", "/", "b", ">">>),
      Chars(<<"[", "l", "a", "u", "g", "h">>) \o <<383>> \o Chars(<<"]">>) }
OtherPieces ==
    { Chars(<<"[">>),
      Chars(<<"]">>),
      Chars(<<"<">>),
      Chars(<<">">>),
      Chars(<<"*">>),
      Chars(<<" ">>),
      Chars(<<",">>),
      Chars(<<"b">>),
      Chars(<<"O", "K">>),
      Chars(<<"I", "V", "R">>),
      <<160>>,
      <<233>> }
Pieces == TagPieces \cup OtherPieces

MaxPieces == 4

RECURSIVE Concat(_)
\* "".join(pieces)
Concat(ps) == IF ps = << >> THEN << >> ELSE Head(ps) \o Concat(Tail(ps))

\* The sequences of at most n elements of S.
SeqsUpTo(S, n) == UNION { [1..k -> S] : k \in 0..n }

InitClean ==
    /\ cfg = AllKeys /\ net = QuietNet /\ req = NoReq
    /\ \E ps \in SeqsUpTo(Pieces, MaxPieces), hacks \in BOOLEAN :
          fin = [pieces |-> ps, text |-> Concat(ps), apply_pronunciation_hacks |-> hacks]
    /\ rng = << >> /\ fpc = "call" /\ fout = << >>
    /\ PhaseIdle /\ BatchIdle /\ QuotaIdle /\ ResolveIdle /\ JobIdle

\* _clean_text_for_tts(text, apply_pronunciation_hacks)
CleanCall ==
    /\ fpc = "call"
    /\ fout' = <<CleanTextForTts(fin.text, fin.apply_pronunciation_hacks)>>
    /\ fpc' = "again"
    /\ UNCHANGED <<fin, rng, envVars, phaseVars, batchVars, quotaVars, resolveVars, jobVars>>

\* _clean_text_for_tts on the text the first call returned.
CleanCallAgain ==
    /\ fpc = "again"
    /\ fout' = Append(fout, CleanTextForTts(fout[1], fin.apply_pronunciation_hacks))
    /\ fpc' = "returned"
    /\ UNCHANGED <<fin, rng, envVars, phaseVars, batchVars, quotaVars, resolveVars, jobVars>>

NextClean == CleanCall \/ CleanCallAgain

SpecClean == InitClean /\ [][NextClean]_vars

\* C25: cleaning a cleaned text changes nothing, with and without the
\* pronunciation fixes.
C25_CleanIdempotent ==
    fpc = "returned" => fout[2] = fout[1]

\* The text is empty or holds nothing but whitespace: text.strip() == ""
BlankText(s) == \A i \in 1..Len(s) : IsSpace(s[i])

\* The text is made of tags only.
TagsOnly == \A i \in 1..Len(fin.pieces) : fin.pieces[i] \in TagPieces

\* C26: a text made only of bracketed tags and XML-like tags is cleaned to
\* an empty or whitespace-only text.
C26_TagsOnlyCleanToNothing ==
    (fpc \in {"again", "returned"} /\ TagsOnly) => BlankText(fout[1])

\* ------------------------------------------------------------------------
\* The request body of the ElevenLabs adapter
\* ------------------------------------------------------------------------

\* Lines 823-838 of _generate_elevenlabs: the JSON payload.  Voice
\* parameters are in hundredths; the requested stability and
\* similarity_boost are copied as they are.  A style value is << >> for
\* None and <<v>> for the number v: the style is sent only when it is not
\* None.
ElevenlabsPayload(text, voice_settings, model_id) ==
    LET base == [stability |-> Get(voice_settings, "stability", 50),
                 similarity_boost |-> Get(voice_settings, "similarity_boost", 75),
                 use_speaker_boost |-> TRUE]
        style_val == Get(voice_settings, "style", << >>)
    IN  [text |-> CleanTextForTts(text, TRUE),
         model_id |-> IF model_id \in {None, ""} THEN ELEVENLABS_TTS_MODEL ELSE model_id,
         voice_settings |-> IF style_val # << >>
                            THEN Update(base, [style |-> style_val[1]])
                            ELSE base]

\* voice_settings arguments: every subset of the keys, with values between
\* 0.0 and 1.0, and a style that is None.
PayloadSettings ==
    { Update(Update(a, b), c) :
        a \in {EmptyDict} \cup { [stability |-> v] : v \in {0, 30, 35, 40, 50, 75, 100} },
        b \in {EmptyDict} \cup { [similarity_boost |-> v] : v \in {75, 80} },
        c \in {EmptyDict} \cup { [style |-> v] : v \in {<< >>, <<0>>, <<30>>} } }

\* "OK [pause]b", "IVR", and a text with a letter and a space outside
\* ASCII (U+00E9, U+00A0).
PayloadTexts ==
    { Chars(<<"O", "K", " ", "[", "p", "a", "u", "s", "e", "]", "b">>),
      Chars(<<"I", "V", "R">>),
      <<233>> \o Chars(<<"O", "K">>) \o <<160, 160>> \o Chars(<<"[", "l", "a", "u", "g", "h", "s", "]">>) }

InitPayload ==
    /\ cfg = AllKeys /\ net = QuietNet /\ req = NoReq
    /\ fin \in [text : PayloadTexts, voice_settings : PayloadSettings,
                model_id : {None, "eleven_multilingual_v2", "eleven_turbo_v2_5"}]
    /\ rng = << >> /\ fpc = "call" /\ fout = << >>
    /\ PhaseIdle /\ BatchIdle /\ QuotaIdle /\ ResolveIdle /\ JobIdle

\* Lines 823-849: the payload is built and posted.
PayloadCall ==
    /\ fpc = "call"
    /\ fout' = <<ElevenlabsPayload(fin.text, fin.voice_settings, fin.model_id)>>
    /\ fpc' = "returned"
    /\ UNCHANGED <<fin, rng, envVars, phaseVars, batchVars, quotaVars, resolveVars, jobVars>>

NextPayload == PayloadCall

SpecPayload == InitPayload /\ [][NextPayload]_vars

\* The stability values a request can ask for: 0.00 to 1.00.
StabilityRange == 0..100

\* The stability the adapter sends when the call asks for stability asked,
\* its other arguments as they are.
SentStability(asked) ==
    ElevenlabsPayload(fin.text, Update(fin.voice_settings, [stability |-> asked]),
                      fin.model_id).voice_settings.stability

Distance(a, b) == IF a >= b THEN a - b ELSE b - a

\* C24: the stability sent to ElevenLabs is a member of the allowed discrete
\* set, and no allowed value is nearer to the requested one.  The source
\* names no allowed set; whatever the set is, the values the adapter sends
\* over all requests are members of it, so the claim says of them: they are
\* a discrete set (some value of the range is never sent), the value sent
\* by the call is one of them, and every request is sent as the one of them
\* nearest to it.
C24_StabilitySnapped ==
    fpc = "returned" =>
        \E sent \in { [asked \in StabilityRange |-> SentStability(asked)] } :
            LET allowed == { sent[asked] : asked \in StabilityRange }
            IN  /\ allowed # StabilityRange
                /\ fout[1].voice_settings.stability \in allowed
                /\ \A asked \in StabilityRange, a \in allowed :
                      Distance(sent[asked], asked) <= Distance(a, asked)

\* ------------------------------------------------------------------------
\* The lengths computed by _mix_voice_with_music
\* ------------------------------------------------------------------------

\* The default sample_rate of the music generators.
MusicSampleRate == 44100

\* Lines 609, 614 and 615: the lead silence, the trail silence, and the
\* length of music asked for beyond the voice, in milliseconds.
LeadSilenceMs == 1000
TrailSilenceMs == 500
MusicExtraMs == 2500

\* len(AudioSegment.from_wav(music_wav)): the frames the generator wrote,
\* as milliseconds rounded to the nearest.
MusicLengthMs(duration_ms) ==
    LET n == NumSamples(duration_ms, MusicSampleRate)
        r == n % MusicSampleRate
    IN  1000 * (n \div MusicSampleRate)
            + (2000 * r + MusicSampleRate) \div (2 * MusicSampleRate)

\* Same as MixLengths, with the music rendered for the length of the voice.
MixLengthsMusicOfVoice(voice_ms) ==
    LET music == MusicLengthMs(voice_ms)
        voice_padded == LeadSilenceMs + voice_ms + TrailSilenceMs
        matched == IF music < voice_padded THEN music + (voice_padded - music)
                   ELSE Min(music, voice_padded)
    IN  [music_duration |-> voice_ms, music |-> music,
         voice_padded |-> voice_padded, matched |-> matched,
         padded_with_silence |-> music < voice_padded, mixed |-> voice_padded]

\* Lines 606-627: the lengths, in milliseconds, of the tracks for a voice of
\* len(voice) = voice_ms.  overlay keeps the length of the padded voice.
MixLengths(voice_ms) ==
    LET music_duration == voice_ms + MusicExtraMs
        music == MusicLengthMs(music_duration)
        voice_padded == LeadSilenceMs + voice_ms + TrailSilenceMs
        matched == IF music < voice_padded THEN music + (voice_padded - music)
                   ELSE Min(music, voice_padded)
    IN  [music_duration |-> music_duration, music |-> music,
         voice_padded |-> voice_padded, matched |-> matched,
         padded_with_silence |-> music < voice_padded, mixed |-> voice_padded]

\* Voice lengths: every length up to MaxVoiceMs, and whole seconds up to
\* 40 seconds.
MaxVoiceMs == 150
VoiceLengths == 0..MaxVoiceMs \cup { 1000 * k : k \in 1..40 }

InitMix ==
    /\ cfg = AllKeys /\ net = QuietNet /\ req = NoReq
    /\ fin \in [voice_ms : VoiceLengths]
    /\ rng = << >> /\ fpc = "call" /\ fout = << >>
    /\ PhaseIdle /\ BatchIdle /\ QuotaIdle /\ ResolveIdle /\ JobIdle

\* The try block of _mix_voice_with_music up to the overlay.
MixCall ==
    /\ fpc = "call"
    /\ fout' = <<MixLengths(fin.voice_ms)>>
    /\ fpc' = "returned"
    /\ UNCHANGED <<fin, rng, envVars, phaseVars, batchVars, quotaVars, resolveVars, jobVars>>

NextMix == MixCall

SpecMix == InitMix /\ [][NextMix]_vars

RECURSIVE DigitsOf(_)
DigitsOf(n) ==
    LET d == <<"0", "1", "2", "3", "4", "5", "6", "7", "8", "9">>[(n % 10) + 1]
    IN  IF n < 10 THEN <<d>> ELSE DigitsOf(n \div 10) \o <<d>>

\* The section types as characters.
TypeChars ==
    [hook_preview |-> <<"h", "o", "o", "k", "_", "p", "r", "e", "v", "i", "e", "w">>,
     main |-> <<"m", "a", "i", "n">>,
     fallback1 |-> <<"f", "a", "l", "l", "b", "a", "c", "k", "1">>,
     fallback2 |-> <<"f", "a", "l", "l", "b", "a", "c", "k", "2">>,
     closure |-> <<"c", "l", "o", "s", "u", "r", "e">>]

\* Same as FileStem, without the voice index.
FileStemNoVoice(path) ==
    <<"v", "a", "r", "i", "a", "n", "t", "_">> \o DigitsOf(path[2])
        \o <<"_">> \o TypeChars[path[5]]

\* f"variant_{variant_id}_voice{voice}_{type}": the file name without its
\* suffix.
FileStem(path) ==
    <<"v", "a", "r", "i", "a", "n", "t", "_">> \o DigitsOf(path[2])
        \o <<"_", "v", "o", "i", "c", "e">> \o DigitsOf(path[4])
        \o <<"_">> \o TypeChars[path[5]]

\* The name of the output file of a job, lines 1124, 1255, 1396 and 1409.
FileName(path) == FileStem(path) \o <<".", "m", "p", "3">>

\* The name of its temporary file: output_path.with_suffix(".voice.mp3"),
\* lines 702, 793 and 861.
VoiceOnlyName(path) == FileStem(path) \o <<".", "v", "o", "i", "c", "e", ".", "m", "p", "3">>

\* Lines 1381-1382 of run.
MULTI_VOICE_SECTIONS == << <<"full_script", "main">> >>
SINGLE_VOICE_SECTIONS == << <<"fallback_1", "fallback1">>, <<"fallback_2", "fallback2">>,
                            <<"polite_closure", "closure">> >>

\* Lines 1385-1417 of run: the jobs of one variant, its main section on each
\* of the 3 voices and its other sections on the first voice.
LegacyJobsOf(script, voice_pool) ==
    LET variant_id == Get(script, "variant_id", 0)
        theme == Get(script, "theme", "unknown")
        job(field, audio_type, voice) ==
            Update([text |-> script[field],
                    path |-> OutputPath(variant_id, voice, audio_type),
                    variant_id |-> variant_id,
                    type |-> audio_type,
                    theme |-> theme,
                    voice_index |-> voice],
                   voice_pool[voice])
        present(sections) ==
            SelectSeq(sections, LAMBDA fa : ~Blank(Get(script, fa[1], Text("", 0, 0))))
        multi == Flatten([v \in 1..PreviewVoices |->
                            [k \in 1..Len(present(MULTI_VOICE_SECTIONS)) |->
                                job(present(MULTI_VOICE_SECTIONS)[k][1],
                                    present(MULTI_VOICE_SECTIONS)[k][2], v)]])
        single == [k \in 1..Len(present(SINGLE_VOICE_SECTIONS)) |->
                     job(present(SINGLE_VOICE_SECTIONS)[k][1],
                         present(SINGLE_VOICE_SECTIONS)[k][2], 1)]
    IN  multi \o single

\* Lines 1384-1417 of run.
BuildLegacyJobs(script_list, voice_pool) ==
    Flatten([k \in 1..Len(script_list) |-> LegacyJobsOf(script_list[k], voice_pool)])

\* The job list of a call: run_hook_previews, run_final_audio or run.
BuildJobsOf(op, script_list, voice_pool, voice_choices, bgm_style) ==
    CASE op = "preview" -> BuildPreviewJobs(script_list, voice_pool)
      [] op = "final" -> BuildFinalJobs(script_list, voice_pool, voice_choices, bgm_style)
      [] OTHER -> BuildLegacyJobs(script_list, voice_pool)

\* A variant with a two-digit id.
V11 == [variant_id |-> 11, theme |-> "late",
        hook |-> Text("One more thing", 0, 14),
        full_script |-> Text("Stay on the line ...", 0, 150),
        fallback_2 |-> Text("Press two.", 0, 10)]

MaxScripts == 3
ScriptPool == {V1, V2, V3, V4, V5, V11}
ScriptLists == SeqsUpTo(ScriptPool, MaxScripts)

InitBuild ==
    /\ cfg = AllKeys /\ net = QuietNet /\ req = NoReq
    /\ fin \in [op : {"preview", "final", "run"}, scripts : ScriptLists,
                voice_choices : {EmptyDict, (1 :> 2) @@ (2 :> 3) @@ (11 :> 1),
                                 (1 :> 3) @@ (2 :> 0) @@ (4 :> 7)},
                tts_engine : Providers]
    /\ rng = << >> /\ fpc = "call" /\ fout = << >>
    /\ PhaseIdle /\ BatchIdle /\ QuotaIdle /\ ResolveIdle /\ JobIdle

\* The job list is built on the voice pool of the resolved engine.
BuildCall ==
    /\ fpc = "call"
    /\ fout' = <<BuildJobsOf(fin.op, fin.scripts, ContextOf(fin.tts_engine).voice_pool,
                             fin.voice_choices, "upbeat")>>
    /\ fpc' = "returned"
    /\ UNCHANGED <<fin, rng, envVars, phaseVars, batchVars, quotaVars, resolveVars, jobVars>>

NextBuild == BuildCall

SpecBuild == InitBuild /\ [][NextBuild]_vars

\* The variant ids of the request are pairwise distinct.
DistinctVariantIds ==
    \A i, j \in 1..Len(fin.scripts) :
        i # j => Get(fin.scripts[i], "variant_id", 0) # Get(fin.scripts[j], "variant_id", 0)

JobTriple(job) == <<job.variant_id, job.type, job.voice_index>>

\* C28: when the variant ids of the request are pairwise distinct, no two
\* jobs of the batch share their (variant id, section type, voice index),
\* their output file or their temporary voice-only file, and no job's
\* temporary file is another job's output file.
C28_DistinctFiles ==
    (fpc = "returned" /\ DistinctVariantIds) =>
        \A i, j \in 1..Len(fout[1]) :
            i # j =>
                /\ JobTriple(fout[1][i]) # JobTriple(fout[1][j])
                /\ FileName(fout[1][i].path) # FileName(fout[1][j].path)
                /\ VoiceOnlyName(fout[1][i].path) # VoiceOnlyName(fout[1][j].path)
                /\ VoiceOnlyName(fout[1][i].path) # FileName(fout[1][j].path)

\* A legacy batch of variants 1 and 11, whose file names differ in the
\* number of digits only, with the three voices of a main section.
C28_Witness ==
    /\ fpc = "returned" /\ fin.op = "run" /\ DistinctVariantIds
    /\ \E i, j \in 1..Len(fout[1]) :
          /\ fout[1][i].variant_id = 1 /\ fout[1][j].variant_id = 11
          /\ fout[1][i].type = "main" /\ fout[1][i].voice_index = 3
    /\ Len(fout[1]) >= 2 * PreviewVoices

\* All variants of the request chose the same voice index.
SameChosenIndex ==
    \A i, j \in 1..Len(successful) :
        successful[i].voice_index = successful[j].voice_index

\* C29: in the result of a final-phase call whose variants all chose the
\* same voice index, every successful artifact was synthesized with the
\* voice the result reports as voice_used.voice_id.
C29_VoiceUsedIsArtifactVoice ==
    (pc = "returned" /\ req.op = "final" /\ SameChosenIndex) =>
        \A i \in 1..Len(successful) :
            successful[i].voice_id = ret.value.voice_used.voice_id

\* What a job asks for, apart from its voice: variant id, section type,
\* voice index, text, output path and music setting.
JobRequest(job) ==
    <<job.variant_id, job.type, job.voice_index, job.text, job.path,
      job.skip_bgm, Get(job, "bgm_style", None)>>

JobRequests(js) == { JobRequest(js[i]) : i \in 1..Len(js) }

\* The voice fields of the job are those of the pool voice at its index.
VoiceFromPool(job, voice_pool) ==
    \A k \in DOMAIN voice_pool[job.voice_index] :
        job[k] = voice_pool[job.voice_index][k]

\* C30: a fallback retry of a preview or final call runs the job list of
\* the batch before it up to the voice: as many jobs, the same set of
\* (variant id, section type, voice index, text, output path, music
\* setting), and the voice fields of every job taken from the pool of the
\* newly resolved engine.
C30_RetrySameJobs ==
    [][(pc = "fallback" /\ pc' = "retry") =>
          /\ Len(jobs') = Len(jobs)
          /\ JobRequests(jobs') = JobRequests(jobs)
          /\ engine_ctx'.tts_engine # engine_ctx.tts_engine
          /\ \A i \in 1..Len(jobs') :
                VoiceFromPool(jobs'[i], engine_ctx'.voice_pool)]_vars

\* A preview call that ran two retries, after ElevenLabs and then Murf
\* failed every job, on a variant whose hook text is cut from the full
\* script and a variant without a hook text.
C30_Witness ==
    /\ pc = "returned" /\ req.op = "preview" /\ Len(batches) = 3
    /\ batches[2].retry /\ batches[3].retry
    /\ batches[1].tts_engine = "elevenlabs" /\ batches[3].tts_engine = "edge-tts"
    /\ Len(jobs) = PreviewVoices
    /\ \A i \in 1..Len(jobs) :
          /\ jobs[i].variant_id = 2
          /\ jobs[i].text.lead + jobs[i].text.rest = HookChars
          /\ jobs[i].text.rest < V2.full_script.rest

====
